---------------------------- MODULE Spec2Model ----------------------------
(***************************************************************************)
(* Verification model of the API-version-fallback clients of lucascd2/ntnx *)
(*                                                                         *)
(*   NutanixAPIClient  (src/VM-Container-Move/list_vms.py)                 *)
(*       get_vms: in-band version fallback with a per-version retry loop,  *)
(*       modelled one HTTP request / one HTTP response per step.           *)
(*   NutanixVMClient   (src/vm-list/get_vms_interactive.py)                *)
(*       discover_api_version / test_api_endpoint: up-front negotiation.   *)
(*                                                                         *)
(* The server is the environment: every response is chosen freely from     *)
(* Responses (a status, an optional Retry-After header, or a network       *)
(* exception raised by the requests library).                              *)
(***************************************************************************)
EXTENDS Integers, Sequences, FiniteSets, TLC

(***************************************************************************)
(* Bounds of the model (not program constants).                            *)
(***************************************************************************)
\* Largest Retry-After header value the server sends (seconds).
MaxRetryAfter == 2

(***************************************************************************)
(* Program constants of NutanixAPIClient.                                  *)
(***************************************************************************)
\* self._vmm_api_versions
VmmApiVersions == <<"v4.1", "v4.0", "v3.0">>

\* self._legacy_api_paths
LegacyApiPaths ==
    << "/api/nutanix/v3/vms",
       "/api/nutanix/v2.0/vms",
       "/PrismGateway/services/rest/v2.0/vms" >>

\* retries = 3 in get_vms
retries == 3

\* backoff = 1.0 in get_vms
backoff == 1

\* response.headers.get('Retry-After', 60)
DefaultRetryAfter == 60

\* Python None for the cached version
None == "None"

(***************************************************************************)
(* HTTP responses.  retry_after is the Retry-After header: <<>> when the   *)
(* header is absent, <<n>> when it carries n.  exc = TRUE stands for a     *)
(* requests.exceptions.RequestException raised instead of a response.      *)
(***************************************************************************)
Statuses == {200, 401, 403, 404, 429, 500}

HttpResponse(s, h) == [exc |-> FALSE, status |-> s, retry_after |-> h]

RequestException == [exc |-> TRUE, status |-> 0, retry_after |-> <<>>]

NoResponse == [exc |-> FALSE, status |-> 0, retry_after |-> <<>>]

RetryAfterHeaders == {<<>>} \cup {<<n>> : n \in 1..MaxRetryAfter}

Responses ==
    {HttpResponse(s, <<>>) : s \in Statuses \ {429}}
    \cup {HttpResponse(429, h) : h \in RetryAfterHeaders}
    \cup {RequestException}

\* requests.Response.ok: no 4xx/5xx status
Ok(r) == r.status >= 200 /\ r.status < 400

\* int(response.headers.get('Retry-After', 60))
RetryAfter(r) ==
    IF r.retry_after = <<>> THEN DefaultRetryAfter ELSE r.retry_after[1]

\* endpoint = f"/vmm/{version}/ahv/config/vms"
VmmEndpoint(version) == "/vmm/" \o version \o "/ahv/config/vms"

\* "v3" in api_path, over the three legacy paths
HasV3(api_path) == api_path = "/api/nutanix/v3/vms"

\* a legacy branch that caches "v3.0" whichever path answered
LegacyVersion_AlwaysV3(api_path) == "v3.0"

\* the version string the legacy branch caches on success
LegacyVersion(api_path) == IF HasV3(api_path) THEN "v3.0" ELSE "v2.0"

Range(s) == {s[i] : i \in DOMAIN s}

\* [v for v in self._vmm_api_versions if v != w]
RECURSIVE Without(_, _)
Without(s, w) ==
    IF s = <<>> THEN <<>>
    ELSE IF Head(s) = w THEN Without(Tail(s), w)
    ELSE <<Head(s)>> \o Without(Tail(s), w)

\* a get_vms that ignores the cached version when it orders the candidates
VersionsToTry_IgnoreCache(w) == VmmApiVersions

\* versions_to_try as get_vms builds it from the cached version
VersionsToTry(w) ==
    IF w # None THEN <<w>> \o Without(VmmApiVersions, w)
    ELSE VmmApiVersions

\* a retry loop that raises at once on 401/403
VmmDecision_AuthFatal(r, att) ==
    IF r.exc THEN (IF att < retries THEN "backoff" ELSE "raise")
    ELSE IF r.status = 429 THEN "rate_limited"
    ELSE IF r.status = 404 THEN "not_found"
    ELSE IF r.status \in {401, 403} THEN "raise"
    ELSE IF ~Ok(r) THEN (IF att < retries THEN "backoff" ELSE "raise")
    ELSE "success"

\* a retry loop that gives a rate-limited candidate one retry only
VmmDecision_RetryOnce(r, att) ==
    IF r.exc THEN (IF att < retries THEN "backoff" ELSE "raise")
    ELSE IF r.status = 429 THEN (IF att < 1 THEN "rate_limited" ELSE "not_found")
    ELSE IF r.status = 404 THEN "not_found"
    ELSE IF ~Ok(r) THEN (IF att < retries THEN "backoff" ELSE "raise")
    ELSE "success"

\* a retry loop without the 404 branch (as _make_request has none)
VmmDecision_NotFoundRetried(r, att) ==
    IF r.exc THEN (IF att < retries THEN "backoff" ELSE "raise")
    ELSE IF r.status = 429 THEN "rate_limited"
    ELSE IF ~Ok(r) THEN (IF att < retries THEN "backoff" ELSE "raise")
    ELSE "success"

(***************************************************************************)
(* The per-response decision of the VMM retry loop of get_vms.             *)
(*   "rate_limited": sleep Retry-After, continue (next attempt)            *)
(*   "not_found"   : break, next version                                   *)
(*   "backoff"     : sleep backoff * 2^attempt, continue                   *)
(*   "raise"       : raise Exception("Request failed after ...")           *)
(*   "success"     : cache the version and return the JSON body            *)
(***************************************************************************)
VmmDecision(r, att) ==
    IF r.exc THEN (IF att < retries THEN "backoff" ELSE "raise")
    ELSE IF r.status = 429 THEN "rate_limited"
    ELSE IF r.status = 404 THEN "not_found"
    ELSE IF ~Ok(r) THEN (IF att < retries THEN "backoff" ELSE "raise")
    ELSE "success"

\* time.sleep(...) performed by the VMM loop after response r on attempt att
VmmSleep(r, att) ==
    LET d == VmmDecision(r, att) IN
    IF d = "rate_limited" THEN RetryAfter(r)
    ELSE IF d = "backoff" THEN backoff * (2 ^ att)
    ELSE 0

VARIABLES
    \* ---- NutanixAPIClient -------------------------------------------------
    working_vmm_version,  \* self._working_vmm_version
    pc,                   \* position of the client inside get_vms
    versions_to_try,      \* local of get_vms
    vidx,                 \* index of `version` in versions_to_try
    attempt,              \* loop variable of the retry loop
    lidx,                 \* index of `api_path` in _legacy_api_paths
    last_exception,       \* local of get_vms (TRUE: not None)
    error,                \* which exception the call raised
    \* ---- observers (no effect on the client) ---------------------------
    reqs,                 \* endpoints requested by the current call, in order
    lastResp,             \* the response to the latest request of the call
    lastSleep,            \* seconds slept after the latest response
    startWorking,         \* cached version when the current call started
    succEndpoint,         \* endpoint whose success set the cached version
    notFound,             \* endpoints that answered 404 in the current call
    rateLimited,          \* consecutive 429 answers of the endpoint asked last
    onlyV3,               \* so far every /vmm answer was 404, every v3 answer 200
    \* ---- which script runs ------------------------------------------------
    prog,
    \* ---- NutanixVMClient.discover_api_version ------------------------------
    working_api_version,  \* self.working_api_version
    dpc,                  \* position of discover_api_version
    didx,                 \* index of (version, endpoint) in api_endpoints
    api_result,           \* what discover_api_version returned
    probes,               \* observer: the probes of the running negotiation
    \* ---- NutanixAPIClient.test_connection ----------------------------------
    tpc,                  \* position of test_connection
    tidx,                 \* index of `version` in _vmm_api_versions
    results,              \* local `results` of test_connection
    tprobes,              \* observer: the probes of test_connection
    \* ---- full enumeration (list_all_vms, list_vms, get_all_operations) ----
    serverCount,          \* environment: records the server holds
    reportsTotal,         \* environment: the answers carry the total count
    e_pc,                 \* position of the enumeration loop
    all_vms,              \* local all_vms / all_operations
    page,                 \* local page
    pageRequests,         \* observer: pages requested by the enumeration
    lastPage,             \* observer: the body of the latest page, converted
    stopReason,           \* observer: which statement ended the loop
    e_resp,               \* observer: the answer to the latest page request
    probesBefore,         \* observer: `probes` when the enumeration started
    \* ---- format_vm_info / format_vm_output ---------------------------------
    n_in,                 \* the call: function, version or format, raw record
    n_out,                \* what the call returned
    \* ---- ngt_auto_install.py -----------------------------------------------
    args,                 \* the command line: force_api_version, dry_run, ...
    ngt_api_version,      \* api_client.api_version
    ngt_pc,               \* position of main() and of the installer
    detect_idx,           \* index of `version` in auto_detect_api_version
    find_tries,           \* lookups of the VM made so far
    ngt_status,           \* what check_ngt_status returned
    etag,                 \* local `etag` of the running operation
    monitoring,           \* the operation whose task monitor_task follows
    polls,                \* passes of the loop of monitor_task
    insert_ok,            \* what insert_ngt_iso returned
    install_ok,           \* what install_ngt returned
    exit_code,            \* sys.exit status of main()
    exit_reason,          \* observer: the statement that ended main()
    ngt_reqs,             \* observer: the requests sent, in order
    \* ---- move_plan_create.py: migration_plan_workflow, step 3 -------------
    vm_networks,          \* the (id, name) pairs of the selected VMs, in the
                          \* order the loops iterate over the set
    m_pc,                 \* position of the workflow
    src_idx,              \* index of (source_id, source_name) in vm_networks
    target_net,           \* local target_net (None: not yet assigned)
    mapping,              \* local mapping: <<>> or <<the dict it refers to>>
    mapping_alias,        \* entries of network_mappings that are that dict
    network_mappings,     \* local network_mappings
    prompts,              \* passes of the `while True` loops so far
    typed,                \* what was typed in the last pass of the mapping loop
    csv_file,             \* ./credential-mapping.csv as step 4 found it:
                          \* <<>> (missing) or <<rows>>
    credentials,          \* local credentials of migration_plan_workflow
    cred_answer,          \* the last answer at the credential file prompt
    plan_name,            \* local plan_name
    plan_post,            \* payloads POSTed to /move/v2/plans
    plan_uuid,            \* local plan_uuid
    \* prism_iam_roles_enhanced.py, the role menu of main
    server_roles,         \* the roles Prism Central holds
    r_pc,                 \* where main stands: list, choice, ask_add, confirm, end
    roles,                \* local roles: data of the last list_roles answer
    selected_role,        \* local selected_role (<<>>: none)
    role_data,            \* local role_data (<<>>: none)
    new_view_ops,         \* new_view_ops of add_view_only_to_existing_role
    operations_cache,     \* keys of operations_cache
    role_reqs,            \* POST and PUT requests sent for roles, in order
    refused,              \* "Cannot modify system-defined roles." was printed
    passes,               \* passes of the menu loop so far
    \* vm_category_assigner_final.py, assign_category_to_vm_v3
    c_pc,                 \* get, put, returned
    c_call,               \* arguments of the call
    c_vm,                 \* <<>> or <<vm_data>>: what the GET answered
    c_put,                \* <<>> or <<body>>: what was PUT
    c_result              \* pending, or the value returned

vars ==
    << working_vmm_version, pc, versions_to_try, vidx, attempt, lidx,
       last_exception, error, reqs, lastResp, lastSleep, startWorking,
       succEndpoint, notFound, rateLimited, onlyV3,
       prog, working_api_version, dpc, didx, api_result, probes,
       tpc, tidx, results, tprobes,
       serverCount, reportsTotal, e_pc, all_vms, page, pageRequests,
       lastPage, stopReason, e_resp, probesBefore,
       n_in, n_out,
       args, ngt_api_version, ngt_pc, detect_idx, find_tries, ngt_status, etag,
       monitoring, polls, insert_ok, install_ok, exit_code, exit_reason,
       ngt_reqs,
       vm_networks, m_pc, src_idx, target_net, mapping, mapping_alias,
       network_mappings, prompts, typed,
       csv_file, credentials, cred_answer, plan_name, plan_post, plan_uuid,
       server_roles, r_pc, roles, selected_role, role_data, new_view_ops,
       operations_cache, role_reqs, refused, passes,
       c_pc, c_call, c_vm, c_put, c_result >>

moveVars ==
    << vm_networks, m_pc, src_idx, target_net, mapping, mapping_alias,
       network_mappings, prompts, typed,
       csv_file, credentials, cred_answer, plan_name, plan_post, plan_uuid >>

\* steps 4 and 5 of migration_plan_workflow
planVars ==
    << csv_file, credentials, cred_answer, plan_name, plan_post, plan_uuid >>

normVars == << n_in, n_out >>

ngtVars ==
    << args, ngt_api_version, ngt_pc, detect_idx, find_tries, ngt_status, etag,
       monitoring, polls, insert_ok, install_ok, exit_code, exit_reason,
       ngt_reqs >>

\* the state of the scripts other than the VM listers
roleVars ==
    << server_roles, r_pc, roles, selected_role, role_data, new_view_ops,
       operations_cache, role_reqs, refused, passes >>

categoryVars == << c_pc, c_call, c_vm, c_put, c_result >>

adminVars == << roleVars, categoryVars >>

toolVars == << normVars, ngtVars, moveVars, adminVars >>

enumVars ==
    << serverCount, reportsTotal, e_pc, all_vms, page, pageRequests,
       lastPage, stopReason, e_resp, probesBefore >>

clientVars ==
    << working_vmm_version, pc, versions_to_try, vidx, attempt, lidx,
       last_exception, error, reqs, lastResp, lastSleep, startWorking,
       succEndpoint, notFound, rateLimited, onlyV3 >>

(***************************************************************************)
(* NutanixAPIClient.__init__                                               *)
(***************************************************************************)
ClientInit ==
    /\ working_vmm_version = None
    /\ pc = "idle"
    /\ versions_to_try = <<>>
    /\ vidx = 1
    /\ attempt = 0
    /\ lidx = 1
    /\ last_exception = FALSE
    /\ error = "none"
    /\ reqs = <<>>
    /\ lastResp = NoResponse
    /\ lastSleep = 0
    /\ startWorking = None
    /\ succEndpoint = None
    /\ notFound = {}
    /\ rateLimited = 0
    /\ onlyV3 = TRUE

\* results = {...} at the top of test_connection
EmptyResults ==
    [reachable |-> FALSE, available_versions |-> <<>>,
     working_version |-> None, errors |-> <<>>]

(***************************************************************************)
(* NutanixVMClient.__init__, and the locals of test_connection             *)
(***************************************************************************)
NegotiatorInit ==
    /\ working_api_version = None
    /\ dpc = "idle"
    /\ didx = 1
    /\ api_result = None
    /\ probes = <<>>
    /\ tpc = "idle"
    /\ tidx = 1
    /\ results = EmptyResults
    /\ tprobes = <<>>

\* no enumeration has started
NoPage == [data |-> <<>>, has_total |-> FALSE, total |-> 0]

EnumInit ==
    /\ serverCount = 0
    /\ reportsTotal = FALSE
    /\ e_pc = "idle"
    /\ all_vms = <<>>
    /\ page = 0
    /\ pageRequests = <<>>
    /\ lastPage = NoPage
    /\ stopReason = "none"
    /\ e_resp = NoResponse
    /\ probesBefore = <<>>

\* no call of the normalizer yet
NoCall == [fn |-> "none", arg |-> "none", vm |-> <<>>]

\* the call has not returned
Pending == [pending |-> TRUE]

NormInit ==
    /\ n_in = NoCall
    /\ n_out = Pending

\* argparse defaults of ngt_auto_install.py, the VM given by --vm-uuid
DefaultArgs ==
    [force_api_version |-> None, dry_run |-> FALSE, skip_install |-> FALSE,
     find_mode |-> "uuid", vm_credentials |-> TRUE]

\* NutanixAPIClient.__init__ of ngt_auto_install.py, main() not yet started
NgtInit(a) ==
    /\ args = a
    /\ ngt_api_version = "v4.1"
    /\ ngt_pc = "start"
    /\ detect_idx = 1
    /\ find_tries = 0
    /\ ngt_status = "unknown"
    /\ etag = None
    /\ monitoring = "none"
    /\ polls = 0
    /\ insert_ok = "pending"
    /\ install_ok = "pending"
    /\ exit_code = 0
    /\ exit_reason = "running"
    /\ ngt_reqs = <<>>

\* migration_plan_workflow at step 3, for the networks nets of the VMs
MoveInit(nets) ==
    /\ vm_networks = nets
    /\ m_pc = "choice"
    /\ src_idx = 1
    /\ target_net = None
    /\ mapping = <<>>
    /\ mapping_alias = {}
    /\ network_mappings = <<>>
    /\ prompts = 0
    /\ typed = [src |-> 0, target |-> "", chosen |-> FALSE, asked |-> FALSE,
                test |-> ""]
    /\ csv_file = <<>>
    /\ credentials = <<>>
    /\ cred_answer = "none"
    /\ plan_name = "Unknown Plan"
    /\ plan_post = <<>>
    /\ plan_uuid = None

\* main of prism_iam_roles_enhanced.py before its menu loop, with the roles
\* sr on the server
RoleInit(sr) ==
    /\ server_roles = sr
    /\ r_pc = "list"
    /\ roles = <<>>
    /\ selected_role = <<>>
    /\ role_data = <<>>
    /\ new_view_ops = {}
    /\ operations_cache = {}
    /\ role_reqs = <<>>
    /\ refused = FALSE
    /\ passes = 0

NoAssign == [vm_uuid |-> "", category_key |-> "", category_value |-> ""]

\* assign_category_to_vm_v3 at its entry, called with call
CategoryInit(call) ==
    /\ c_pc = "get"
    /\ c_call = call
    /\ c_vm = <<>>
    /\ c_put = <<>>
    /\ c_result = "pending"

AdminInit == RoleInit(<<>>) /\ CategoryInit(NoAssign)

ToolInit ==
    NormInit /\ NgtInit(DefaultArgs) /\ MoveInit(<<>>) /\ AdminInit

negotiatorVars ==
    << prog, working_api_version, dpc, didx, api_result, probes,
       tpc, tidx, results, tprobes >>

\* list_vms.py listing VMs
Init ==
    prog = "list_vms" /\ ClientInit /\ NegotiatorInit /\ EnumInit /\ ToolInit

(***************************************************************************)
(* get_vms: entry.  Builds versions_to_try from the cached version.        *)
(***************************************************************************)
GetVmsStart ==
    /\ pc \in {"idle", "returned", "raised"}
    /\ versions_to_try' = VersionsToTry(working_vmm_version)
    /\ vidx' = 1
    /\ attempt' = 0
    /\ lidx' = 1
    /\ last_exception' = FALSE
    /\ error' = "none"
    /\ pc' = "vmm_send"
    /\ reqs' = <<>>
    /\ lastResp' = NoResponse
    /\ lastSleep' = 0
    /\ startWorking' = working_vmm_version
    /\ notFound' = {}
    /\ rateLimited' = 0
    /\ UNCHANGED <<working_vmm_version, succEndpoint, onlyV3>>
    /\ UNCHANGED negotiatorVars
    /\ UNCHANGED enumVars
    /\ UNCHANGED toolVars

\* response = self.session.get(url, params=params, timeout=30)
VmmSend ==
    /\ pc = "vmm_send"
    /\ reqs' = Append(reqs, VmmEndpoint(versions_to_try[vidx]))
    /\ pc' = "vmm_wait"
    /\ rateLimited' = IF attempt = 0 THEN 0 ELSE rateLimited
    /\ UNCHANGED <<working_vmm_version, versions_to_try, vidx, attempt, lidx,
                   last_exception, error, lastResp, lastSleep, startWorking,
                   succEndpoint, notFound, onlyV3>>
    /\ UNCHANGED negotiatorVars
    /\ UNCHANGED enumVars
    /\ UNCHANGED toolVars

\* Where the two loops go when the retry loop of the current version ends
\* (by break, or by running out of attempts on a `continue`).
AfterVersion ==
    IF vidx < Len(versions_to_try)
    THEN /\ vidx' = vidx + 1
         /\ attempt' = 0
         /\ pc' = "vmm_send"
         /\ lidx' = lidx
    ELSE /\ pc' = "legacy_send"
         /\ lidx' = 1
         /\ UNCHANGED <<vidx, attempt>>

\* `continue` of the retry loop: the next attempt, or the end of the loop
AfterContinue ==
    IF attempt < retries
    THEN /\ attempt' = attempt + 1
         /\ pc' = "vmm_send"
         /\ UNCHANGED <<vidx, lidx>>
    ELSE AfterVersion

\* The body of the retry loop from the response on.
VmmReceive(r) ==
    /\ pc = "vmm_wait"
    /\ lastResp' = r
    /\ lastSleep' = VmmSleep(r, attempt)
    /\ last_exception' = (last_exception \/ r.exc)
    /\ notFound' = IF ~r.exc /\ r.status = 404
                   THEN notFound \cup {reqs[Len(reqs)]} ELSE notFound
    /\ rateLimited' = IF ~r.exc /\ r.status = 429 THEN rateLimited + 1 ELSE 0
    /\ onlyV3' = (onlyV3 /\ ~r.exc /\ r.status = 404)
    /\ LET d == VmmDecision(r, attempt) IN
       CASE d = "rate_limited" ->
              /\ AfterContinue
              /\ UNCHANGED <<working_vmm_version, succEndpoint, error>>
         [] d = "not_found" ->
              /\ AfterVersion
              /\ UNCHANGED <<working_vmm_version, succEndpoint, error>>
         [] d = "backoff" ->
              /\ AfterContinue
              /\ UNCHANGED <<working_vmm_version, succEndpoint, error>>
         [] d = "raise" ->
              /\ pc' = "raised"
              /\ error' = "request_failed"
              /\ UNCHANGED <<working_vmm_version, succEndpoint, vidx,
                             attempt, lidx>>
         [] OTHER ->
              /\ working_vmm_version' = versions_to_try[vidx]
              /\ succEndpoint' = reqs[Len(reqs)]
              /\ pc' = "returned"
              /\ UNCHANGED <<error, vidx, attempt, lidx>>
    /\ UNCHANGED <<versions_to_try, reqs, startWorking>>
    /\ UNCHANGED negotiatorVars
    /\ UNCHANGED enumVars
    /\ UNCHANGED toolVars

\* self.session.post(url, json=request_body) / self.session.get(url, params=v2_params)
LegacySend ==
    /\ pc = "legacy_send"
    /\ reqs' = Append(reqs, LegacyApiPaths[lidx])
    /\ pc' = "legacy_wait"
    /\ rateLimited' = 0
    /\ UNCHANGED <<working_vmm_version, versions_to_try, vidx, attempt, lidx,
                   last_exception, error, lastResp, lastSleep, startWorking,
                   succEndpoint, notFound, onlyV3>>
    /\ UNCHANGED negotiatorVars
    /\ UNCHANGED enumVars
    /\ UNCHANGED toolVars

\* One iteration of the legacy loop from the response on; every failure is
\* `continue`, and after the last path the function raises.
LegacyReceive(r) ==
    /\ pc = "legacy_wait"
    /\ lastResp' = r
    /\ lastSleep' = 0
    /\ notFound' = IF ~r.exc /\ r.status = 404
                   THEN notFound \cup {reqs[Len(reqs)]} ELSE notFound
    /\ rateLimited' = IF ~r.exc /\ r.status = 429 THEN rateLimited + 1 ELSE 0
    /\ onlyV3' = (onlyV3 /\ (HasV3(LegacyApiPaths[lidx])
                               => (~r.exc /\ r.status = 200)))
    /\ IF ~r.exc /\ Ok(r)
       THEN /\ working_vmm_version' = LegacyVersion(LegacyApiPaths[lidx])
            /\ succEndpoint' = reqs[Len(reqs)]
            /\ pc' = "returned"
            /\ UNCHANGED <<lidx, error>>
       ELSE /\ UNCHANGED <<working_vmm_version, succEndpoint>>
            /\ IF lidx < Len(LegacyApiPaths)
               THEN /\ lidx' = lidx + 1
                    /\ pc' = "legacy_send"
                    /\ error' = error
               ELSE /\ pc' = "raised"
                    /\ error' = IF last_exception THEN "all_endpoints_failed"
                                ELSE "no_working_endpoints"
                    /\ lidx' = lidx
    /\ UNCHANGED <<versions_to_try, vidx, attempt, last_exception, reqs,
                   startWorking>>
    /\ UNCHANGED negotiatorVars
    /\ UNCHANGED enumVars
    /\ UNCHANGED toolVars

Next ==
    \/ GetVmsStart
    \/ VmmSend
    \/ \E r \in Responses : VmmReceive(r)
    \/ LegacySend
    \/ \E r \in Responses : LegacyReceive(r)

Spec == Init /\ [][Next]_vars

TypeOK ==
    /\ working_vmm_version \in {None, "v4.1", "v4.0", "v3.0", "v2.0"}
    /\ pc \in {"idle", "vmm_send", "vmm_wait", "legacy_send", "legacy_wait",
               "returned", "raised"}
    /\ vidx \in 1..4
    /\ attempt \in 0..retries
    /\ lidx \in 1..3
    /\ last_exception \in BOOLEAN
    /\ lastResp \in Responses \cup {NoResponse}

(***************************************************************************)
(* NutanixVMClient (get_vms_interactive.py): up-front negotiation.         *)
(***************************************************************************)
\* self.api_endpoints, in the dict's insertion order
ApiEndpoints ==
    << [version |-> "v4.1", endpoint |-> "/vmm/v4.1/ahv/config/vms"],
       [version |-> "v4.0", endpoint |-> "/vmm/v4.0/ahv/config/vms"],
       [version |-> "v3.1", endpoint |-> "/api/nutanix/v3/vms/list"],
       [version |-> "v3.0", endpoint |-> "/api/nutanix/v3/vms"],
       [version |-> "v2.0", endpoint |-> "/api/nutanix/v2.0/vms"] >>

\* version.startswith('v3'): POST with a JSON body, otherwise GET
ProbeMethod(version) == IF version \in {"v3.1", "v3.0"} THEN "POST" ELSE "GET"

\* test_api_endpoint: (success, result) for the answer r of the probe
TestApiEndpoint(version, r) ==
    IF r.exc THEN [success |-> FALSE, error |-> "Connection error"]
    ELSE IF r.status = 200 THEN [success |-> TRUE, error |-> "none"]
    ELSE IF r.status = 401
         THEN [success |-> FALSE, error |-> "authentication_failed"]
    ELSE IF r.status = 404 THEN [success |-> FALSE, error |-> "not_found"]
    ELSE [success |-> FALSE, error |-> "HTTP " \o ToString(r.status)]

\* a negotiator that, like test_connection, does not stop at the first
\* available version
DiscoverOutcome_KeepProbing(t) ==
    IF t.success THEN "continue"
    ELSE IF t.error = "authentication_failed" THEN "return_auth_failed"
    ELSE "continue"

\* the three ways the loop body of discover_api_version ends
DiscoverOutcome(t) ==
    IF t.success THEN "return_version"
    ELSE IF t.error = "authentication_failed" THEN "return_auth_failed"
    ELSE "continue"

\* main(): client.discover_api_version(), again on every pass of its loop
\* (a failed negotiation, or "Change connection"), on the same client object
DiscoverStart ==
    /\ prog = "get_vms_interactive"
    /\ dpc \in {"idle", "done"}
    /\ e_pc = "idle"                       \* not while list_vms is running
    /\ dpc' = "discovering"
    /\ didx' = 1
    /\ api_result' = None
    /\ probes' = <<>>
    /\ UNCHANGED <<prog, working_api_version, tpc, tidx, results, tprobes>>
    /\ UNCHANGED clientVars
    /\ UNCHANGED enumVars
    /\ UNCHANGED toolVars

\* one iteration of the loop of discover_api_version, test_api_endpoint included
DiscoverProbe(r) ==
    /\ dpc = "discovering"
    /\ LET c == ApiEndpoints[didx]
           o == DiscoverOutcome(TestApiEndpoint(c.version, r))
       IN  /\ probes' = Append(probes, [version |-> c.version,
                                        endpoint |-> c.endpoint,
                                        method |-> ProbeMethod(c.version),
                                        resp |-> r])
           /\ CASE o = "return_version" ->
                     /\ working_api_version' = c.version
                     /\ api_result' = c.version
                     /\ dpc' = "done"
                     /\ didx' = didx
                [] o = "return_auth_failed" ->
                     /\ api_result' = "auth_failed"
                     /\ dpc' = "done"
                     /\ UNCHANGED <<working_api_version, didx>>
                [] OTHER ->
                     /\ UNCHANGED working_api_version
                     /\ IF didx < Len(ApiEndpoints)
                        THEN /\ didx' = didx + 1
                             /\ UNCHANGED <<api_result, dpc>>
                        ELSE /\ api_result' = "none_found"
                             /\ dpc' = "done"
                             /\ didx' = didx
    /\ UNCHANGED <<prog, tpc, tidx, results, tprobes>>
    /\ UNCHANGED clientVars
    /\ UNCHANGED enumVars
    /\ UNCHANGED toolVars

(***************************************************************************)
(* NutanixAPIClient.test_connection (list_vms.py --test-connection).       *)
(***************************************************************************)
\* the body of the loop of test_connection: `results` after the answer r
TestConnectionResults(res, version, r) ==
    IF r.exc
    THEN [res EXCEPT !.errors =
              Append(@, "Connection error for " \o version)]
    ELSE IF r.status = 200
    THEN [res EXCEPT !.available_versions = Append(@, version),
                     !.working_version = IF @ = None THEN version ELSE @,
                     !.reachable = TRUE]
    ELSE IF r.status = 404 THEN res
    ELSE IF r.status \in {401, 403}
    THEN [res EXCEPT !.errors =
              Append(@, "Authentication failed for " \o version)]
    ELSE [res EXCEPT !.errors =
              Append(@, "HTTP " \o ToString(r.status) \o " for " \o version)]

TestConnectionStart ==
    /\ prog = "list_vms_test_connection"
    /\ tpc = "idle"
    /\ tpc' = "testing"
    /\ tidx' = 1
    /\ results' = EmptyResults
    /\ tprobes' = <<>>
    /\ UNCHANGED <<prog, working_api_version, dpc, didx, api_result, probes>>
    /\ UNCHANGED clientVars
    /\ UNCHANGED enumVars
    /\ UNCHANGED toolVars

TestConnectionProbe(r) ==
    /\ tpc = "testing"
    /\ tprobes' = Append(tprobes, [version |-> VmmApiVersions[tidx],
                                   endpoint |-> VmmEndpoint(VmmApiVersions[tidx]),
                                   resp |-> r])
    /\ results' = TestConnectionResults(results, VmmApiVersions[tidx], r)
    /\ IF tidx < Len(VmmApiVersions)
       THEN tidx' = tidx + 1 /\ tpc' = tpc
       ELSE tpc' = "done" /\ tidx' = tidx
    /\ UNCHANGED <<prog, working_api_version, dpc, didx, api_result, probes>>
    /\ UNCHANGED clientVars
    /\ UNCHANGED enumVars
    /\ UNCHANGED toolVars

\* get_vms_interactive.py, or list_vms.py --test-connection
InitDiscover ==
    /\ prog \in {"get_vms_interactive", "list_vms_test_connection"}
    /\ ClientInit
    /\ NegotiatorInit
    /\ EnumInit
    /\ ToolInit

NextDiscover ==
    \/ DiscoverStart
    \/ \E r \in Responses : DiscoverProbe(r)
    \/ TestConnectionStart
    \/ \E r \in Responses : TestConnectionProbe(r)

SpecDiscover == InitDiscover /\ [][NextDiscover]_vars

(***************************************************************************)
(* Full enumeration: list_all_vms (list_vms.py), list_vms                  *)
(* (get_vms_interactive.py) and get_all_operations (prism_iam_roles.py).   *)
(* The server holds the records 1..serverCount and answers the request for *)
(* page p of size `limit` with the records p*limit+1 .. (p+1)*limit that   *)
(* exist, with or without the total count in the metadata.                 *)
(***************************************************************************)
\* limit / page_size of the enumerations (100 in the scripts)
PageLimit == 2

\* the largest inventory of the server
MaxRecords == 5

Min(a, b) == IF a < b THEN a ELSE b

\* the body the server sends for '$page': p, '$limit': limit
ServerAnswer(n, rt, p, limit) ==
    LET lo == p * limit
        hi == Min(lo + limit, n)
    IN  [entities  |-> IF hi > lo THEN [i \in 1..(hi - lo) |-> lo + i]
                       ELSE <<>>,
         has_total |-> rt,
         total     |-> IF rt THEN n ELSE 0]

\* what one call of get_vms (list_vms.py) comes to: it raises, or one of the
\* /vmm endpoints or of the legacy paths answers
GetVmsOutcomes ==
    {[raised |-> TRUE, kind |-> "none", version |-> None]}
    \cup {[raised |-> FALSE, kind |-> "vmm", version |-> v] :
             v \in Range(VmmApiVersions)}
    \cup {[raised |-> FALSE, kind |-> "legacy", version |-> LegacyVersion(p)] :
             p \in Range(LegacyApiPaths)}

\* the dict get_vms (list_vms.py) returns for the body b: response.json()
\* of a /vmm endpoint, converted_data of a legacy path
GetVmsData(o, b) ==
    IF o.kind = "vmm"
    THEN [data |-> b.entities, has_total |-> b.has_total, total |-> b.total]
    ELSE IF o.version = "v3.0"
    THEN [data |-> b.entities, has_total |-> TRUE,
          total |-> IF b.has_total THEN b.total ELSE 0]
    ELSE [data |-> b.entities, has_total |-> TRUE,
          total |-> IF b.has_total THEN b.total ELSE Len(b.entities)]

\* the dict get_vms_v4 / get_vms_v3 / get_vms_v2 returns for the body b
InteractiveData(version, b) ==
    IF version \in {"v4.1", "v4.0"}
    THEN [data |-> b.entities, has_total |-> b.has_total, total |-> b.total]
    ELSE [data |-> b.entities, has_total |-> TRUE,
          total |-> IF b.has_total THEN b.total ELSE Len(b.entities)]

\* a loop body that does not stop at an empty page
ListAllVmsStep_PastEmptyPage(d, count, limit) ==
    IF d.has_total /\ d.total # 0 /\ count >= d.total THEN "total"
    ELSE IF Len(d.data) > 0 /\ Len(d.data) < limit THEN "short"
    ELSE "next"

\* the loop body of list_all_vms after get_vms returned d; count is
\* len(all_vms) after the extend
ListAllVmsStep(d, count, limit) ==
    IF Len(d.data) = 0 THEN "empty"
    ELSE IF d.has_total /\ d.total # 0 /\ count >= d.total THEN "total"
    ELSE IF Len(d.data) < limit THEN "short"
    ELSE "next"

\* the loop body of list_vms after get_vms returned d
ListVmsStep(d, count, page_size) ==
    LET total_available == IF d.has_total THEN d.total ELSE 0
    IN  IF Len(d.data) = 0 THEN "empty"
        ELSE IF count >= total_available THEN "total"
        ELSE IF Len(d.data) < page_size THEN "short"
        ELSE "next"

\* the loop body of get_all_operations after list_operations returned d
GetAllOperationsStep(d, p, limit) ==
    LET total_available == IF d.has_total THEN d.total ELSE 0
        current_count == (p + 1) * limit
    IN  IF Len(d.data) = 0 THEN "empty"
        ELSE IF current_count >= total_available THEN "total"
        ELSE "next"

\* all_operations[op['extId']] = op for every op of the page
DictUpdate(ops, data) ==
    ops \o SelectSeq(data, LAMBDA x : x \notin Range(ops))

\* the entry of an enumeration, against a server with n records
EnumStart(n, rt) ==
    /\ serverCount' = n
    /\ reportsTotal' = rt
    /\ e_pc' = "looping"
    /\ all_vms' = <<>>
    /\ page' = 0
    /\ pageRequests' = <<>>
    /\ lastPage' = NoPage
    /\ stopReason' = "none"
    /\ e_resp' = NoResponse
    /\ probesBefore' = probes

\* the end of an iteration that got the dict d and came to `step`
EnumAdvance(d, step, merged) ==
    /\ lastPage' = d
    /\ all_vms' = IF step = "empty" THEN all_vms ELSE merged
    /\ IF step = "next"
       THEN /\ page' = page + 1
            /\ UNCHANGED <<e_pc, stopReason>>
       ELSE /\ e_pc' = "returned"
            /\ stopReason' = step
            /\ page' = page

\* list_vms.py main(): client.list_all_vms(limit=args.limit, ...)
ListAllVmsStart(n, rt) ==
    /\ prog = "list_vms"
    /\ e_pc = "idle"
    /\ EnumStart(n, rt)
    /\ UNCHANGED clientVars
    /\ UNCHANGED negotiatorVars
    /\ UNCHANGED toolVars

\* one iteration of the loop of list_all_vms, the call of get_vms included
ListAllVmsPage(o) ==
    /\ prog = "list_vms"
    /\ e_pc = "looping"
    /\ pageRequests' = Append(pageRequests, page)
    /\ e_resp' = NoResponse
    /\ IF o.raised
       THEN /\ e_pc' = "raised"
            /\ stopReason' = "exception"
            /\ UNCHANGED <<working_vmm_version, all_vms, page, lastPage>>
       ELSE /\ working_vmm_version' = o.version
            /\ LET d == GetVmsData(o, ServerAnswer(serverCount, reportsTotal,
                                                   page, PageLimit))
                   merged == all_vms \o d.data
               IN  EnumAdvance(d, ListAllVmsStep(d, Len(merged), PageLimit),
                               merged)
    /\ UNCHANGED <<serverCount, reportsTotal, probesBefore>>
    /\ UNCHANGED <<pc, versions_to_try, vidx, attempt, lidx, last_exception,
                   error, reqs, lastResp, lastSleep, startWorking,
                   succEndpoint, notFound, rateLimited, onlyV3>>
    /\ UNCHANGED negotiatorVars
    /\ UNCHANGED toolVars

\* interactive_vm_listing: choice 1, 2 or 3, after a negotiation that found
\* a version
ListVmsStart(n, rt) ==
    /\ prog = "get_vms_interactive"
    /\ dpc = "done"
    /\ api_result \notin {None, "auth_failed", "none_found"}
    /\ e_pc = "idle"
    /\ EnumStart(n, rt)
    /\ UNCHANGED clientVars
    /\ UNCHANGED negotiatorVars
    /\ UNCHANGED toolVars

\* one iteration of the loop of list_vms, the call of get_vms included;
\* raise_for_status turns a 4xx/5xx answer into an exception, which the
\* except clause of list_vms reports
ListVmsPage(r) ==
    /\ prog = "get_vms_interactive"
    /\ e_pc = "looping"
    /\ pageRequests' = Append(pageRequests, page)
    /\ e_resp' = r
    /\ IF r.exc \/ r.status >= 400
       THEN /\ e_pc' = "failed"
            /\ stopReason' = "exception"
            /\ UNCHANGED <<all_vms, page, lastPage>>
       ELSE LET d == InteractiveData(working_api_version,
                                     ServerAnswer(serverCount, reportsTotal,
                                                  page, PageLimit))
                merged == all_vms \o d.data
            IN  EnumAdvance(d, ListVmsStep(d, Len(merged), PageLimit), merged)
    /\ UNCHANGED <<serverCount, reportsTotal, probesBefore>>
    /\ UNCHANGED clientVars
    /\ UNCHANGED negotiatorVars
    /\ UNCHANGED toolVars

\* list_vms is over: back in the menu of interactive_vm_listing, the locals
\* of list_vms are gone
ListVmsMenu ==
    /\ prog = "get_vms_interactive"
    /\ e_pc \in {"returned", "failed"}
    /\ serverCount' = 0
    /\ reportsTotal' = FALSE
    /\ e_pc' = "idle"
    /\ all_vms' = <<>>
    /\ page' = 0
    /\ pageRequests' = <<>>
    /\ lastPage' = NoPage
    /\ stopReason' = "none"
    /\ e_resp' = NoResponse
    /\ probesBefore' = <<>>
    /\ UNCHANGED clientVars
    /\ UNCHANGED negotiatorVars
    /\ UNCHANGED toolVars

\* get_operation_details: operations_cache.update(self.get_all_operations())
GetAllOperationsStart(n, rt) ==
    /\ prog = "prism_iam_roles"
    /\ e_pc = "idle"
    /\ EnumStart(n, rt)
    /\ UNCHANGED clientVars
    /\ UNCHANGED negotiatorVars
    /\ UNCHANGED toolVars

\* one iteration of the loop of get_all_operations; _make_request returns
\* None for a failed request
GetAllOperationsPage(r) ==
    /\ prog = "prism_iam_roles"
    /\ e_pc = "looping"
    /\ pageRequests' = Append(pageRequests, page)
    /\ e_resp' = r
    /\ IF r.exc \/ r.status >= 400
       THEN /\ e_pc' = "returned"
            /\ stopReason' = "no_data"
            /\ UNCHANGED <<all_vms, page, lastPage>>
       ELSE LET b == ServerAnswer(serverCount, reportsTotal, page, PageLimit)
                d == [data |-> b.entities, has_total |-> b.has_total,
                      total |-> b.total]
            IN  EnumAdvance(d, GetAllOperationsStep(d, page, PageLimit),
                            DictUpdate(all_vms, d.data))
    /\ UNCHANGED <<serverCount, reportsTotal, probesBefore>>
    /\ UNCHANGED clientVars
    /\ UNCHANGED negotiatorVars
    /\ UNCHANGED toolVars

InitEnum ==
    /\ prog \in {"list_vms", "get_vms_interactive", "prism_iam_roles"}
    /\ ClientInit
    /\ NegotiatorInit
    /\ EnumInit
    /\ ToolInit

NextEnum ==
    \/ \E n \in 0..MaxRecords, rt \in BOOLEAN : ListAllVmsStart(n, rt)
    \/ \E o \in GetVmsOutcomes : ListAllVmsPage(o)
    \/ DiscoverStart
    \/ \E r \in Responses : DiscoverProbe(r)
    \/ \E n \in 0..MaxRecords, rt \in BOOLEAN : ListVmsStart(n, rt)
    \/ \E r \in Responses : ListVmsPage(r)
    \/ ListVmsMenu
    \/ \E n \in 0..MaxRecords, rt \in BOOLEAN : GetAllOperationsStart(n, rt)
    \/ \E r \in Responses : GetAllOperationsPage(r)

SpecEnum == InitEnum /\ [][NextEnum]_vars

(***************************************************************************)
(* Response normalizer: format_vm_info (get_vms_interactive.py) and        *)
(* format_vm_output (list_vms.py).  A raw record is a function from the    *)
(* keys that are present (a nested key written as its path) to values; a   *)
(* memory size in bytes is a whole number of MiB, and sizes are rendered   *)
(* in hundredths of a GiB, the two decimals the code keeps.                *)
(***************************************************************************)
\* the keys format_vm_info and format_vm_output read, by API family
RawKeys(family) ==
    IF family = "v4"
    THEN {"name", "extId", "powerState", "numSockets", "numCoresPerSocket",
          "numThreadsPerCore", "memorySizeBytes", "cluster.name", "host.name",
          "cluster.extId", "host.extId"}
    ELSE IF family = "v3"
    THEN {"spec.name", "name", "metadata.uuid", "spec.resources.power_state",
          "spec.resources.num_sockets", "spec.resources.num_vcpus_per_socket",
          "spec.resources.memory_size_mib", "spec.cluster_reference.name"}
    ELSE {"name", "uuid", "power_state", "num_cores_per_vcpu", "num_vcpus",
          "memory_mb", "host_name"}

\* one value for every key: a text, a count, or a size
RawValue(k) ==
    IF k \in {"numSockets", "spec.resources.num_sockets", "num_cores_per_vcpu"}
    THEN 2
    ELSE IF k \in {"numCoresPerSocket", "spec.resources.num_vcpus_per_socket",
                   "num_vcpus"}
    THEN 4
    ELSE IF k = "numThreadsPerCore" THEN 3
    ELSE IF k = "memorySizeBytes" THEN 1536 * 1024 * 1024
    ELSE IF k \in {"spec.resources.memory_size_mib", "memory_mb"} THEN 1536
    ELSE IF k = "extId"
    THEN <<"0", "1", "2", "3", "4", "5", "6", "7", "8", "9">>
    ELSE k \o "-value"

\* the raw records of a family: every choice of the keys that are present
RawRecords(family) ==
    {[k \in present |-> RawValue(k)] : present \in SUBSET RawKeys(family)}

\* api_version.startswith('v4') / ('v3') / ('v2')
Family(version) ==
    IF version \in {"v4.1", "v4.0"} THEN "v4"
    ELSE IF version \in {"v3.1", "v3.0"} THEN "v3"
    ELSE "v2"

\* dict.get(key, default), for the nested gets with {} as inner default too
DictGet(d, k, default) == IF k \in DOMAIN d THEN d[k] ELSE default

\* round(x / 1024, 2) of a size in MiB, in hundredths of a GiB
RoundGb(mib) == (mib * 200 + 1024) \div 2048

\* a normalizer whose sentinel for every missing number is 0
FormatVmInfo_ZeroSentinel(vm, api_version) ==
    IF Family(api_version) = "v4"
    THEN [name |-> DictGet(vm, "name", "N/A"),
          uuid |-> DictGet(vm, "extId", "N/A"),
          power_state |-> DictGet(vm, "powerState", "N/A"),
          cpu_sockets |-> DictGet(vm, "numSockets", 0),
          cpu_cores_per_socket |-> DictGet(vm, "numCoresPerSocket", 0),
          memory_gb |->
              RoundGb(DictGet(vm, "memorySizeBytes", 0) \div (1024 * 1024)),
          cluster |-> DictGet(vm, "cluster.name", "N/A"),
          host |-> DictGet(vm, "host.name", "N/A")]
    ELSE IF Family(api_version) = "v3"
    THEN [name |-> DictGet(vm, "spec.name", DictGet(vm, "name", "N/A")),
          uuid |-> DictGet(vm, "metadata.uuid", "N/A"),
          power_state |-> DictGet(vm, "spec.resources.power_state", "N/A"),
          cpu_sockets |-> DictGet(vm, "spec.resources.num_sockets", 0),
          cpu_cores_per_socket |->
              DictGet(vm, "spec.resources.num_vcpus_per_socket", 0),
          memory_gb |->
              RoundGb(DictGet(vm, "spec.resources.memory_size_mib", 0)),
          cluster |-> DictGet(vm, "spec.cluster_reference.name", "N/A"),
          host |-> "N/A"]
    ELSE [name |-> DictGet(vm, "name", "N/A"),
          uuid |-> DictGet(vm, "uuid", "N/A"),
          power_state |-> DictGet(vm, "power_state", "N/A"),
          cpu_sockets |-> DictGet(vm, "num_cores_per_vcpu", 0),
          cpu_cores_per_socket |-> DictGet(vm, "num_vcpus", 0),
          memory_gb |-> RoundGb(DictGet(vm, "memory_mb", 0)),
          cluster |-> "N/A",
          host |-> DictGet(vm, "host_name", "N/A")]

\* format_vm_info(vm, api_version), api_version one of api_endpoints
FormatVmInfo(vm, api_version) ==
    IF Family(api_version) = "v4"
    THEN [name |-> DictGet(vm, "name", "N/A"),
          uuid |-> DictGet(vm, "extId", "N/A"),
          power_state |-> DictGet(vm, "powerState", "N/A"),
          cpu_sockets |-> DictGet(vm, "numSockets", 1),
          cpu_cores_per_socket |-> DictGet(vm, "numCoresPerSocket", 1),
          memory_gb |->
              RoundGb(DictGet(vm, "memorySizeBytes", 0) \div (1024 * 1024)),
          cluster |-> DictGet(vm, "cluster.name", "N/A"),
          host |-> DictGet(vm, "host.name", "N/A")]
    ELSE IF Family(api_version) = "v3"
    THEN [name |-> DictGet(vm, "spec.name", DictGet(vm, "name", "N/A")),
          uuid |-> DictGet(vm, "metadata.uuid", "N/A"),
          power_state |-> DictGet(vm, "spec.resources.power_state", "N/A"),
          cpu_sockets |-> DictGet(vm, "spec.resources.num_sockets", 1),
          cpu_cores_per_socket |->
              DictGet(vm, "spec.resources.num_vcpus_per_socket", 1),
          memory_gb |->
              RoundGb(DictGet(vm, "spec.resources.memory_size_mib", 0)),
          cluster |-> DictGet(vm, "spec.cluster_reference.name", "N/A"),
          host |-> "N/A"]
    ELSE [name |-> DictGet(vm, "name", "N/A"),
          uuid |-> DictGet(vm, "uuid", "N/A"),
          power_state |-> DictGet(vm, "power_state", "N/A"),
          cpu_sockets |-> DictGet(vm, "num_cores_per_vcpu", 1),
          cpu_cores_per_socket |-> DictGet(vm, "num_vcpus", 1),
          memory_gb |-> RoundGb(DictGet(vm, "memory_mb", 0)),
          cluster |-> "N/A",
          host |-> DictGet(vm, "host_name", "N/A")]

\* format_vm_output(vm_data, 'csv' | 'table'): the columns of the line, in
\* order; the table has no cluster and host columns and cuts the id to 8
FormatVmOutput(vm_data, format_type) ==
    LET name == DictGet(vm_data, "name", "N/A")
        power_state == DictGet(vm_data, "powerState", "N/A")
        memory_gb ==
            IF "memorySizeBytes" \in DOMAIN vm_data
               /\ vm_data["memorySizeBytes"] # 0
            THEN RoundGb(vm_data["memorySizeBytes"] \div (1024 * 1024))
            ELSE 0
        num_vcpus == DictGet(vm_data, "numSockets", 1)
                     * DictGet(vm_data, "numCoresPerSocket", 1)
                     * DictGet(vm_data, "numThreadsPerCore", 1)
    IN  IF format_type = "csv"
        THEN [name |-> name,
              ext_id |-> DictGet(vm_data, "extId", "N/A"),
              power_state |-> power_state,
              memory_gb |-> memory_gb,
              num_vcpus |-> num_vcpus,
              cluster_id |-> DictGet(vm_data, "cluster.extId", "N/A"),
              host_id |-> DictGet(vm_data, "host.extId", "N/A")]
        ELSE [name |-> name,
              ext_id |-> IF "extId" \in DOMAIN vm_data
                         THEN SubSeq(vm_data["extId"], 1, 8)
                              \o <<".", ".", ".">>
                         ELSE "N/A",
              power_state |-> power_state,
              memory_gb |-> memory_gb,
              num_vcpus |-> num_vcpus]

\* the calls of the normalizer: a version of api_endpoints, or a format,
\* and a raw record of the matching family
NormCalls ==
    {[fn |-> "format_vm_info", arg |-> v, vm |-> vm] :
        v \in {"v2.0"}, vm \in RawRecords("v2")}
    \cup {[fn |-> "format_vm_info", arg |-> v, vm |-> vm] :
             v \in {"v3.1", "v3.0"}, vm \in RawRecords("v3")}
    \cup {[fn |-> "format_vm_info", arg |-> v, vm |-> vm] :
             v \in {"v4.1", "v4.0"}, vm \in RawRecords("v4")}
    \cup {[fn |-> "format_vm_output", arg |-> f, vm |-> vm] :
             f \in {"csv", "table"}, vm \in RawRecords("v4")}

\* print_vm_table / export: format_vm_info(vm, self.working_api_version)
FormatVmInfoCall ==
    /\ n_in.fn = "format_vm_info"
    /\ n_out = Pending
    /\ n_out' = FormatVmInfo(n_in.vm, n_in.arg)
    /\ UNCHANGED n_in
    /\ UNCHANGED <<clientVars, negotiatorVars, enumVars>>
    /\ UNCHANGED <<ngtVars, moveVars, adminVars>>

\* list_vms.py main(): format_vm_output(vm, args.format), csv or table
FormatVmOutputCall ==
    /\ n_in.fn = "format_vm_output"
    /\ n_out = Pending
    /\ n_out' = FormatVmOutput(n_in.vm, n_in.arg)
    /\ UNCHANGED n_in
    /\ UNCHANGED <<clientVars, negotiatorVars, enumVars>>
    /\ UNCHANGED <<ngtVars, moveVars, adminVars>>

\* a record and a version (or a format) are handed to the normalizer
InitNorm ==
    /\ n_in \in NormCalls
    /\ prog = IF n_in.fn = "format_vm_info" THEN "get_vms_interactive"
              ELSE "list_vms"
    /\ n_out = Pending
    /\ ClientInit
    /\ NegotiatorInit
    /\ EnumInit
    /\ NgtInit(DefaultArgs)
    /\ MoveInit(<<>>)
    /\ AdminInit

NextNorm ==
    \/ FormatVmInfoCall
    \/ FormatVmOutputCall

SpecNorm == InitNorm /\ [][NextNorm]_vars

(***************************************************************************)
(* ngt_auto_install.py: main() and NGTInstaller.  One request per step;    *)
(* the environment chooses the answer.                                     *)
(***************************************************************************)
\* the largest number of passes of the loop of monitor_task before its
\* timeout
MaxPolls == 2

\* for version in ["v4.1", "v4.0"]
DetectVersions == <<"v4.1", "v4.0">>

\* find_local_vm: the detected UUID, then the hostname, the FQDN and the
\* FQDN without its domain
LocalLookups == <<"uuid", "hostname", "fqdn", "short">>

\* the command lines
NgtArgs ==
    [force_api_version : {None, "v4.0", "v4.1"},
     dry_run : BOOLEAN,
     skip_install : BOOLEAN,
     find_mode : {"uuid", "name", "local"},
     vm_credentials : BOOLEAN]

\* the values of check_ngt_status
NgtStatuses ==
    {"installed_enabled", "installed_disabled", "not_installed", "unknown"}

\* the ETag headers of the server
Etags == {"etag-1", "etag-2"}

\* the answers to GET .../guest-tools: a failed request, or a body with or
\* without an ETag header
GuestToolsAnswers ==
    {[ok |-> FALSE, etag |-> None]}
    \cup {[ok |-> TRUE, etag |-> e] : e \in Etags \cup {None}}

\* the etag get_guest_tools_info returns
GetGuestToolsInfo(g) == IF g.ok THEN g.etag ELSE None

\* an installer that posts whatever get_guest_tools_info returned
HasEtag_Always(e) == TRUE

\* `if not etag` is not taken
HasEtag(e) == e # None

\* the answers to a POST: an exception of raise_for_status (412 or another
\* status), a body with a task id, a body without
PostAnswers == {"error", "precondition_failed", "task", "accepted"}

\* what one pass of monitor_task sees
TaskAnswers == {"SUCCEEDED", "FAILED", "RUNNING", "no_data"}

VmmGet(version, op) ==
    [method |-> "GET", api |-> "vmm", version |-> version, op |-> op,
     if_match |-> None, etag |-> None]

GuestToolsGet(version, e) ==
    [method |-> "GET", api |-> "vmm", version |-> version,
     op |-> "guest-tools", if_match |-> None, etag |-> e]

\* self.api.post(f'vmm/v4.0/ahv/config/vms/{vm_ext_id}/guest-tools/$actions/...')
GuestToolsPost(op, e) ==
    [method |-> "POST", api |-> "vmm", version |-> "v4.0", op |-> op,
     if_match |-> e, etag |-> None]

\* self.api.get of monitor_task
TaskGet ==
    [method |-> "GET", api |-> "prism", version |-> "v4.0", op |-> "task",
     if_match |-> None, etag |-> None]

\* a main() that installs whatever --skip-install and --dry-run say
MainDecision_IgnoreFlags(a, status) ==
    IF status = "installed_enabled" THEN "already_installed"
    ELSE IF ~a.vm_credentials THEN "no_credentials"
    ELSE "install"

\* main() between check_ngt_status and installer.install_ngt
MainDecision(a, status) ==
    IF a.skip_install THEN "skip_install"
    ELSE IF status = "installed_enabled" THEN "already_installed"
    ELSE IF a.dry_run THEN "dry_run"
    ELSE IF ~a.vm_credentials THEN "no_credentials"
    ELSE "install"

\* an install_ngt that goes on whatever insert_ngt_iso returned
AfterInsert_GoOn(ok) == "inst_get"

\* install_ngt: `if not self.insert_ngt_iso(vm_ext_id): return False`
AfterInsert(ok) == IF ok THEN "inst_get" ELSE "exit"

\* sys.exit(code)
Exit(code, reason) ==
    /\ ngt_pc' = "exit"
    /\ exit_code' = code
    /\ exit_reason' = reason

\* install_ngt returned ok to main()
InstallReturns(ok) ==
    /\ install_ok' = IF ok THEN "true" ELSE "false"
    /\ IF ok
       THEN /\ ngt_pc' = "verify_final"
            /\ UNCHANGED <<exit_code, exit_reason>>
       ELSE Exit(1, "install_failed")

\* insert_ngt_iso returned ok to install_ngt
InsertReturns(ok) ==
    /\ insert_ok' = IF ok THEN "true" ELSE "false"
    /\ IF AfterInsert(ok) = "inst_get"
       THEN /\ ngt_pc' = "inst_get"
            /\ UNCHANGED <<install_ok, exit_code, exit_reason>>
       ELSE /\ install_ok' = "false"
            /\ Exit(1, "install_failed")

\* main(): api_client.set_api_version(args.force_api_version)
ForceApiVersion ==
    /\ ngt_pc = "start"
    /\ args.force_api_version # None
    /\ ngt_api_version' = args.force_api_version
    /\ ngt_pc' = "find_vm"
    /\ UNCHANGED <<args, detect_idx, find_tries, ngt_status, etag, monitoring,
                   polls, insert_ok, install_ok, exit_code, exit_reason,
                   ngt_reqs>>
    /\ UNCHANGED <<clientVars, negotiatorVars, enumVars, normVars, moveVars,
                   adminVars>>

\* one iteration of auto_detect_api_version, test_api_version included, and
\* the fallback of main() when the loop finds nothing
AutoDetectProbe(ok) ==
    /\ ngt_pc \in {"start", "detect"}
    /\ args.force_api_version = None
    /\ LET version == DetectVersions[detect_idx]
       IN  /\ ngt_reqs' = Append(ngt_reqs, VmmGet(version, "vms"))
           /\ IF ok
              THEN /\ ngt_api_version' = version
                   /\ ngt_pc' = "find_vm"
                   /\ UNCHANGED detect_idx
              ELSE IF detect_idx < Len(DetectVersions)
              THEN /\ ngt_api_version' = version
                   /\ detect_idx' = detect_idx + 1
                   /\ ngt_pc' = "detect"
              ELSE /\ ngt_api_version' = "v4.0"
                   /\ ngt_pc' = "find_vm"
                   /\ UNCHANGED detect_idx
    /\ UNCHANGED <<args, find_tries, ngt_status, etag, monitoring, polls,
                   insert_ok, install_ok, exit_code, exit_reason>>
    /\ UNCHANGED <<clientVars, negotiatorVars, enumVars, normVars, moveVars,
                   adminVars>>

\* find_vm_by_uuid / find_vm_by_name, from main() or from find_local_vm
FindVm(found) ==
    /\ ngt_pc = "find_vm"
    /\ LET lookup == IF args.find_mode = "local"
                     THEN LocalLookups[find_tries + 1]
                     ELSE args.find_mode
       IN  ngt_reqs' = Append(ngt_reqs,
                              VmmGet(ngt_api_version,
                                     IF lookup = "uuid" THEN "vm" ELSE "vms"))
    /\ find_tries' = find_tries + 1
    /\ IF found
       THEN /\ ngt_pc' = "details"
            /\ UNCHANGED <<exit_code, exit_reason>>
       ELSE IF args.find_mode = "local" /\ find_tries + 1 < Len(LocalLookups)
       THEN UNCHANGED <<ngt_pc, exit_code, exit_reason>>
       ELSE Exit(1, "vm_not_found")
    /\ UNCHANGED <<args, ngt_api_version, detect_idx, ngt_status, etag,
                   monitoring, polls, insert_ok, install_ok>>
    /\ UNCHANGED <<clientVars, negotiatorVars, enumVars, normVars, moveVars,
                   adminVars>>

\* main(): get_vm_details, check_ngt_status and the exits before install_ngt
GetVmDetails(ok, status) ==
    /\ ngt_pc = "details"
    /\ ngt_reqs' = Append(ngt_reqs, VmmGet(ngt_api_version, "vm"))
    /\ IF ~ok
       THEN /\ Exit(1, "no_details")
            /\ UNCHANGED ngt_status
       ELSE /\ ngt_status' = status
            /\ LET d == MainDecision(args, status)
               IN  IF d = "install"
                   THEN /\ ngt_pc' = "ins_get"
                        /\ UNCHANGED <<exit_code, exit_reason>>
                   ELSE Exit(IF d = "no_credentials" THEN 1 ELSE 0, d)
    /\ UNCHANGED <<args, ngt_api_version, detect_idx, find_tries, etag,
                   monitoring, polls, insert_ok, install_ok>>
    /\ UNCHANGED <<clientVars, negotiatorVars, enumVars, normVars, moveVars,
                   adminVars>>

\* insert_ngt_iso: get_guest_tools_info and the test of the etag
InsertGetEtag(g) ==
    /\ ngt_pc = "ins_get"
    /\ ngt_reqs' = Append(ngt_reqs,
                          GuestToolsGet(ngt_api_version, GetGuestToolsInfo(g)))
    /\ etag' = GetGuestToolsInfo(g)
    /\ IF HasEtag(GetGuestToolsInfo(g))
       THEN /\ ngt_pc' = "ins_post"
            /\ UNCHANGED <<insert_ok, install_ok, exit_code, exit_reason>>
       ELSE InsertReturns(FALSE)
    /\ UNCHANGED <<args, ngt_api_version, detect_idx, find_tries, ngt_status,
                   monitoring, polls>>
    /\ UNCHANGED <<clientVars, negotiatorVars, enumVars, normVars, moveVars,
                   adminVars>>

\* insert_ngt_iso: the POST of insert-iso and what follows its answer
InsertPost(a) ==
    /\ ngt_pc = "ins_post"
    /\ ngt_reqs' = Append(ngt_reqs, GuestToolsPost("insert-iso", etag))
    /\ IF a \in {"error", "precondition_failed"}
       THEN /\ InsertReturns(FALSE)
            /\ UNCHANGED <<monitoring, polls>>
       ELSE IF a = "task"
       THEN /\ ngt_pc' = "monitor"
            /\ monitoring' = "insert"
            /\ polls' = 0
            /\ UNCHANGED <<insert_ok, install_ok, exit_code, exit_reason>>
       ELSE /\ InsertReturns(TRUE)
            /\ UNCHANGED <<monitoring, polls>>
    /\ UNCHANGED <<args, ngt_api_version, detect_idx, find_tries, ngt_status,
                   etag>>
    /\ UNCHANGED <<clientVars, negotiatorVars, enumVars, normVars, moveVars,
                   adminVars>>

\* one pass of the loop of monitor_task; after the timeout
\* verify_ngt_installation_after_delay returns True
MonitorPoll(o) ==
    /\ ngt_pc = "monitor"
    /\ ngt_reqs' = Append(ngt_reqs, TaskGet)
    /\ IF o = "RUNNING" /\ polls < MaxPolls
       THEN /\ polls' = polls + 1
            /\ UNCHANGED <<ngt_pc, monitoring, insert_ok, install_ok,
                           exit_code, exit_reason>>
       ELSE /\ polls' = polls
            /\ monitoring' = "none"
            /\ IF monitoring = "insert"
               THEN InsertReturns(o # "FAILED")
               ELSE /\ InstallReturns(o # "FAILED")
                    /\ UNCHANGED insert_ok
    /\ UNCHANGED <<args, ngt_api_version, detect_idx, find_tries, ngt_status,
                   etag>>
    /\ UNCHANGED <<clientVars, negotiatorVars, enumVars, normVars, moveVars,
                   adminVars>>

\* install_ngt, step 2: get_guest_tools_info and the test of the etag
InstallGetEtag(g) ==
    /\ ngt_pc = "inst_get"
    /\ ngt_reqs' = Append(ngt_reqs,
                          GuestToolsGet(ngt_api_version, GetGuestToolsInfo(g)))
    /\ etag' = GetGuestToolsInfo(g)
    /\ IF HasEtag(GetGuestToolsInfo(g))
       THEN /\ ngt_pc' = "inst_post"
            /\ UNCHANGED <<install_ok, exit_code, exit_reason>>
       ELSE InstallReturns(FALSE)
    /\ UNCHANGED <<args, ngt_api_version, detect_idx, find_tries, ngt_status,
                   monitoring, polls, insert_ok>>
    /\ UNCHANGED <<clientVars, negotiatorVars, enumVars, normVars, moveVars,
                   adminVars>>

\* install_ngt: the POST of install and what follows its answer
InstallPost(a) ==
    /\ ngt_pc = "inst_post"
    /\ ngt_reqs' = Append(ngt_reqs, GuestToolsPost("install", etag))
    /\ IF a = "error"
       THEN /\ InstallReturns(FALSE)
            /\ UNCHANGED <<monitoring, polls>>
       ELSE IF a = "precondition_failed"
       THEN /\ ngt_pc' = "retry_get"
            /\ UNCHANGED <<monitoring, polls, install_ok, exit_code,
                           exit_reason>>
       ELSE IF a = "task"
       THEN /\ ngt_pc' = "monitor"
            /\ monitoring' = "install"
            /\ polls' = 0
            /\ UNCHANGED <<install_ok, exit_code, exit_reason>>
       ELSE /\ ngt_pc' = "verify_install"
            /\ UNCHANGED <<monitoring, polls, install_ok, exit_code,
                           exit_reason>>
    /\ UNCHANGED <<args, ngt_api_version, detect_idx, find_tries, ngt_status,
                   etag, insert_ok>>
    /\ UNCHANGED <<clientVars, negotiatorVars, enumVars, normVars, moveVars,
                   adminVars>>

\* install_ngt_retry: get_guest_tools_info and the test of the etag
RetryGetEtag(g) ==
    /\ ngt_pc = "retry_get"
    /\ ngt_reqs' = Append(ngt_reqs,
                          GuestToolsGet(ngt_api_version, GetGuestToolsInfo(g)))
    /\ etag' = GetGuestToolsInfo(g)
    /\ IF HasEtag(GetGuestToolsInfo(g))
       THEN /\ ngt_pc' = "retry_post"
            /\ UNCHANGED <<install_ok, exit_code, exit_reason>>
       ELSE InstallReturns(FALSE)
    /\ UNCHANGED <<args, ngt_api_version, detect_idx, find_tries, ngt_status,
                   monitoring, polls, insert_ok>>
    /\ UNCHANGED <<clientVars, negotiatorVars, enumVars, normVars, moveVars,
                   adminVars>>

\* install_ngt_retry: the POST of install and what follows its answer
RetryPost(a) ==
    /\ ngt_pc = "retry_post"
    /\ ngt_reqs' = Append(ngt_reqs, GuestToolsPost("install", etag))
    /\ IF a \in {"error", "precondition_failed"}
       THEN InstallReturns(FALSE)
       ELSE /\ ngt_pc' = "verify_install"
            /\ UNCHANGED <<install_ok, exit_code, exit_reason>>
    /\ UNCHANGED <<args, ngt_api_version, detect_idx, find_tries, ngt_status,
                   etag, monitoring, polls, insert_ok>>
    /\ UNCHANGED <<clientVars, negotiatorVars, enumVars, normVars, moveVars,
                   adminVars>>

\* verify_ngt_installation, called by install_ngt / install_ngt_retry and
\* by main() for the final verification
VerifyNgtInstallation(ok) ==
    /\ ngt_pc \in {"verify_install", "verify_final"}
    /\ ngt_reqs' = Append(ngt_reqs, GuestToolsGet("v4.0", None))
    /\ IF ngt_pc = "verify_install"
       THEN InstallReturns(ok)
       ELSE /\ Exit(0, IF ok THEN "verified" ELSE "not_verified")
            /\ UNCHANGED install_ok
    /\ UNCHANGED <<args, ngt_api_version, detect_idx, find_tries, ngt_status,
                   etag, monitoring, polls, insert_ok>>
    /\ UNCHANGED <<clientVars, negotiatorVars, enumVars, normVars, moveVars,
                   adminVars>>

InitNgt ==
    /\ prog = "ngt_auto_install"
    /\ ClientInit
    /\ NegotiatorInit
    /\ EnumInit
    /\ NormInit
    /\ MoveInit(<<>>)
    /\ AdminInit
    /\ \E a \in NgtArgs : NgtInit(a)

NextNgt ==
    \/ ForceApiVersion
    \/ \E ok \in BOOLEAN : AutoDetectProbe(ok)
    \/ \E found \in BOOLEAN : FindVm(found)
    \/ \E ok \in BOOLEAN, status \in NgtStatuses : GetVmDetails(ok, status)
    \/ \E g \in GuestToolsAnswers : InsertGetEtag(g)
    \/ \E a \in PostAnswers : InsertPost(a)
    \/ \E o \in TaskAnswers : MonitorPoll(o)
    \/ \E g \in GuestToolsAnswers : InstallGetEtag(g)
    \/ \E a \in PostAnswers : InstallPost(a)
    \/ \E g \in GuestToolsAnswers : RetryGetEtag(g)
    \/ \E a \in PostAnswers : RetryPost(a)
    \/ \E ok \in BOOLEAN : VerifyNgtInstallation(ok)

SpecNgt == InitNgt /\ [][NextNgt]_vars

(***************************************************************************)
(* move_plan_create.py: step 3 of migration_plan_workflow, the network     *)
(* mapping, and prompt_for_test_network.  What the user types is a record: *)
(* its kind says which test of the code the text passes (isdigit, '-' in   *)
(* it, 'auto', empty, otherwise a name).                                   *)
(***************************************************************************)
\* the largest number of passes of the `while True` loops in one run
MaxPrompts == 3

\* the largest number of networks of the selected VMs
MaxSourceNetworks == 2

\* target_details[...]['Networks'] of the target cluster
TargetNetworks ==
    << [Name |-> "prod", UUID |-> "uuid-1"],
       [Name |-> "test", UUID |-> "uuid-2"] >>

\* the networks a selected VM can have: (network_id, network_name)
SourceNetworks ==
    { [id |-> "src-1", name |-> "prod"], [id |-> "src-2", name |-> "backup"] }

\* the orders in which the set vm_networks can be iterated
VmNetworkOrders ==
    { q \in UNION { [1..n -> SourceNetworks] : n \in 0..MaxSourceNetworks } :
        \A i, j \in DOMAIN q : i # j => q[i] # q[j] }

Typed(kind, text, n) == [kind |-> kind, text |-> text, n |-> n]

\* what can be typed at a prompt for a network
NetworkInputs ==
    {Typed("empty", "", 0), Typed("auto", "auto", 0)}
    \cup {Typed("number", ToString(n), n) : n \in 1..(Len(TargetNetworks) + 1)}
    \cup {Typed("uuid", u, 0) : u \in {"uuid-1", "uuid-2"}}
    \cup {Typed("name", nm, 0) : nm \in {"prod", "test", "TEST", "lab"}}

\* str.lower() on the names that occur
Lower(text) == IF text = "TEST" THEN "test" ELSE text

\* {net['Name']: net['UUID'] for net in target_networks}
TargetNetworkMap(target_networks) ==
    [nm \in {target_networks[i].Name : i \in DOMAIN target_networks} |->
        LET last == CHOOSE i \in DOMAIN target_networks :
                        /\ target_networks[i].Name = nm
                        /\ \A j \in DOMAIN target_networks :
                              target_networks[j].Name = nm => j <= i
        IN  target_networks[last].UUID]

\* prompt_for_test_network(source_name, target_net, target_networks) for
\* the text typed: the test network UUID, or None
PromptForTestNetwork(test_input, production, target_networks) ==
    IF test_input.kind = "empty" THEN None
    ELSE IF test_input.kind = "number"
    THEN IF test_input.n - 1 >= 0 /\ test_input.n - 1 < Len(target_networks)
         THEN IF target_networks[test_input.n].UUID = production
              THEN None
              ELSE target_networks[test_input.n].UUID
         ELSE None
    ELSE IF test_input.kind = "uuid"
    THEN IF test_input.text = production THEN None ELSE test_input.text
    ELSE LET hits == {i \in DOMAIN target_networks :
                        Lower(target_networks[i].Name) = Lower(test_input.text)}
         IN  IF hits = {} THEN None
             ELSE LET first == CHOOSE i \in hits : \A j \in hits : i <= j
                  IN  IF target_networks[first].UUID = production THEN None
                      ELSE target_networks[first].UUID

\* mapping = {"SourceNetworkID": ..., "TargetNetworkID": ...}
NewMapping(source_id, target) ==
    [SourceNetworkID |-> source_id, TargetNetworkID |-> target,
     TestNetworkID |-> None]

\* one pass of the manual loop up to the call of prompt_for_test_network:
\* whether the call is reached, the target_net it is given, whether a new
\* dict was bound to `mapping`, whether a try/except is around
TargetBranch(t, confirm, source_name, target_networks) ==
    LET target_network_map == TargetNetworkMap(target_networks)
        Reach(tn, bind, guarded) ==
            [prompt |-> TRUE, target_net |-> tn, bind |-> bind,
             guarded |-> guarded]
        Continue == [prompt |-> FALSE, target_net |-> t.text, bind |-> FALSE,
                     guarded |-> FALSE]
    IN  IF t.kind = "auto"
        THEN IF source_name \in DOMAIN target_network_map
             THEN Reach(target_network_map[source_name], TRUE, TRUE)
             ELSE Reach(t.text, FALSE, TRUE)
        ELSE IF t.kind = "number"
        THEN IF t.n - 1 >= 0 /\ t.n - 1 < Len(target_networks)
             THEN Reach(target_networks[t.n].UUID, TRUE, FALSE)
             ELSE Reach(t.text, FALSE, FALSE)
        ELSE IF t.kind = "empty" THEN Continue
        ELSE IF t.kind = "name"
        THEN IF t.text \in DOMAIN target_network_map
             THEN IF confirm = "y"
                  THEN Reach(target_network_map[t.text], TRUE, TRUE)
                  ELSE Reach(t.text, FALSE, TRUE)
             ELSE Continue
        ELSE Reach(t.text, TRUE, FALSE)

\* no network on the selected VMs: "no mapping needed"
NoNetworkMapping ==
    /\ prog = "move_plan_create"
    /\ m_pc = "choice"
    /\ vm_networks = <<>>
    /\ m_pc' = "done"
    /\ UNCHANGED <<vm_networks, src_idx, target_net, mapping, mapping_alias,
                   network_mappings, prompts, typed>>
    /\ UNCHANGED planVars
    /\ UNCHANGED <<clientVars, negotiatorVars, enumVars, normVars, ngtVars,
                   adminVars>>

\* "Choose option (1/2/3)".  Option 1 evaluates target_net, a local that is
\* assigned only in the manual branch, in its first iteration: the except
\* clause falls back to the manual configuration
ChooseMappingOption(choice) ==
    /\ prog = "move_plan_create"
    /\ m_pc = "choice"
    /\ vm_networks # <<>>
    /\ IF choice = "1"
       THEN /\ mapping' =
                  IF vm_networks[1].name \in DOMAIN TargetNetworkMap(TargetNetworks)
                  THEN <<NewMapping(vm_networks[1].id,
                                    TargetNetworkMap(TargetNetworks)
                                        [vm_networks[1].name])>>
                  ELSE mapping
            /\ m_pc' = "manual"
       ELSE IF choice = "2"
       THEN /\ m_pc' = "manual"
            /\ UNCHANGED mapping
       ELSE /\ m_pc' = "done"
            /\ UNCHANGED mapping
    /\ UNCHANGED <<vm_networks, src_idx, target_net, mapping_alias,
                   network_mappings, prompts, typed>>
    /\ UNCHANGED planVars
    /\ UNCHANGED <<clientVars, negotiatorVars, enumVars, normVars, ngtVars,
                   adminVars>>

\* one pass of the `while True` loop of the manual mapping: the text t typed
\* for the target network, the answer to "Use this network? (y/n)" when it
\* is asked, the text x typed for the test network
ManualMappingStep(t, confirm, x) ==
    /\ prog = "move_plan_create"
    /\ m_pc = "manual"
    /\ prompts < MaxPrompts
    /\ prompts' = prompts + 1
    /\ LET src == vm_networks[src_idx]
           b == TargetBranch(t, confirm, src.name, TargetNetworks)
           bound == IF b.bind THEN <<NewMapping(src.id, b.target_net)>>
                    ELSE mapping
           alias == IF b.bind THEN {} ELSE mapping_alias
           test_net_uuid ==
               IF b.prompt
               THEN PromptForTestNetwork(x, b.target_net, TargetNetworks)
               ELSE None
       IN  /\ target_net' = b.target_net
           /\ typed' = [src |-> src_idx, target |-> t.text, chosen |-> b.bind,
                        asked |-> b.prompt,
                        test |-> IF b.prompt THEN x.text ELSE ""]
           /\ IF ~b.prompt \/ test_net_uuid = None
              THEN \* continue, or the end of the loop body without break
                   /\ mapping' = bound
                   /\ mapping_alias' = alias
                   /\ UNCHANGED <<network_mappings, m_pc, src_idx>>
              ELSE IF bound = <<>>
              THEN \* mapping["TestNetworkID"] with mapping not assigned
                   /\ UNCHANGED <<mapping, mapping_alias, network_mappings,
                                  src_idx>>
                   /\ m_pc' = IF b.guarded THEN m_pc ELSE "crashed"
              ELSE LET m == [bound[1] EXCEPT !.TestNetworkID = test_net_uuid]
                   IN  /\ mapping' = <<m>>
                       /\ network_mappings' =
                              Append([i \in DOMAIN network_mappings |->
                                         IF i \in alias THEN m
                                         ELSE network_mappings[i]], m)
                       /\ mapping_alias' =
                              alias \cup {Len(network_mappings) + 1}
                       /\ IF src_idx < Len(vm_networks)
                          THEN src_idx' = src_idx + 1 /\ m_pc' = m_pc
                          ELSE src_idx' = src_idx /\ m_pc' = "done"
    /\ UNCHANGED vm_networks
    /\ UNCHANGED planVars
    /\ UNCHANGED <<clientVars, negotiatorVars, enumVars, normVars, ngtVars,
                   adminVars>>

(***************************************************************************)
(* move_plan_create.py: steps 4 and 5 of migration_plan_workflow, the      *)
(* credential mapping file and the creation of the plan.  They start when  *)
(* the network mapping step is done.  Fields of the file are written       *)
(* without surrounding blanks, so strip() leaves them as they are.         *)
(***************************************************************************)
\* the largest number of rows of a credential mapping file
MaxRows == 2

\* the names of the selected VMs (get_vm_name)
SelectedVms == {"vm-1", "vm-2"}

\* rows of a CSV file: a header, a complete row, a row with an empty
\* password, a row of two fields
CsvRows ==
    { <<"servername", "username", "password">>,
      <<"vm-1", "admin", "secret">>,
      <<"vm-2", "admin", "">>,
      <<"vm-2", "admin">> }

CsvFiles == UNION { [1..n -> CsvRows] : n \in 0..MaxRows }

\* what is typed at "Enter path to credential mapping CSV file (or 'skip'
\* ...)": skip in either case, the path of a file, a path with no file
UserPaths ==
    { [text |-> "skip", file |-> <<>>], [text |-> "SKIP", file |-> <<>>],
      [text |-> "missing.csv", file |-> <<>>] }
    \cup { [text |-> "creds.csv", file |-> <<f>>] : f \in CsvFiles }

\* str.lower() on what is typed at the credential file prompt
LowerPath(text) == IF text = "SKIP" THEN "skip" ELSE text

\* the first row counts as a header when its first field names the server
IsHeader(row) ==
    row[1] \in {"servername", "server", "vm", "vmname", "hostname"}

\* len(row) >= 3 and server_name and username and password
CompleteRow(row) ==
    Len(row) >= 3 /\ row[1] # "" /\ row[2] # "" /\ row[3] # ""

\* the dictionary read_credential_mapping builds from the rows of a file
ReadCsv(rows) ==
    IF rows = <<>> THEN <<>>
    ELSE LET data == { i \in DOMAIN rows :
                         /\ (i = 1 => ~IsHeader(rows[1]))
                         /\ CompleteRow(rows[i]) }
             LastOf(nm) == CHOOSE i \in data :
                              /\ rows[i][1] = nm
                              /\ \A j \in data : rows[j][1] = nm => j <= i
         IN  [nm \in {rows[i][1] : i \in data} |->
                 [username |-> rows[LastOf(nm)][2],
                  password |-> rows[LastOf(nm)][3]]]

\* `if not credentials:` of step 4: where the workflow goes with the
\* dictionary returned by read_credential_mapping
AfterCredentials(creds) ==
    IF DOMAIN creds = {} THEN "cancelled" ELSE "plan_name"

\* plan_payload of create_migration_plan
PlanPayload(name, creds, mappings) ==
    [Name |-> name,
     VMs |-> [vm \in SelectedVms |->
                 [GuestCredentials |->
                     IF vm \in DOMAIN creds THEN <<creds[vm]>> ELSE <<>>]],
     NetworkMappings |-> mappings]

\* the answers to the POST of the plan: 200/201 with a UUID, 200/201
\* without one, another status, an exception of the session
PlanAnswers == {"uuid", "no_uuid", "failed", "exception"}

\* read_credential_mapping() up to its first prompt, with the file that
\* os.path.exists finds at the default path: it is read when it exists
ReadCredentialMapping(file) ==
    /\ prog = "move_plan_create"
    /\ m_pc = "done"
    /\ csv_file' = file
    /\ IF file = <<>>
       THEN /\ m_pc' = "cred_prompt"
            /\ UNCHANGED credentials
       ELSE /\ credentials' = ReadCsv(file[1])
            /\ m_pc' = AfterCredentials(credentials')
    /\ UNCHANGED <<cred_answer, plan_name, plan_post, plan_uuid>>
    /\ UNCHANGED <<vm_networks, src_idx, target_net, mapping, mapping_alias,
                   network_mappings, prompts, typed>>
    /\ UNCHANGED <<clientVars, negotiatorVars, enumVars, normVars, ngtVars,
                   adminVars>>

\* one pass of the `while True` loop of read_credential_mapping and, when
\* it returns, the test of step 4 on what it returned
CredentialPathPrompt(user_path) ==
    /\ prog = "move_plan_create"
    /\ m_pc = "cred_prompt"
    /\ cred_answer' = LowerPath(user_path.text)
    /\ IF LowerPath(user_path.text) = "skip"
       THEN /\ credentials' = <<>>
            /\ m_pc' = AfterCredentials(credentials')
       ELSE IF user_path.file # <<>>
       THEN /\ credentials' = ReadCsv(user_path.file[1])
            /\ m_pc' = AfterCredentials(credentials')
       ELSE UNCHANGED <<credentials, m_pc>>
    /\ UNCHANGED <<csv_file, plan_name, plan_post, plan_uuid>>
    /\ UNCHANGED <<vm_networks, src_idx, target_net, mapping, mapping_alias,
                   network_mappings, prompts, typed>>
    /\ UNCHANGED <<clientVars, negotiatorVars, enumVars, normVars, ngtVars,
                   adminVars>>

\* one pass of "Enter migration plan name" and, for a name, the call of
\* create_migration_plan; test_migration_workflow starts from "created"
PlanNamePrompt(name, answer) ==
    /\ prog = "move_plan_create"
    /\ m_pc = "plan_name"
    /\ IF name = ""
       THEN UNCHANGED <<plan_name, plan_post, plan_uuid, m_pc>>
       ELSE /\ plan_name' = name
            /\ plan_post' =
                   Append(plan_post,
                          PlanPayload(name, credentials, network_mappings))
            /\ plan_uuid' = IF answer = "uuid" THEN "plan-1" ELSE None
            /\ m_pc' = IF answer = "uuid" THEN "created" ELSE "failed"
    /\ UNCHANGED <<csv_file, credentials, cred_answer>>
    /\ UNCHANGED <<vm_networks, src_idx, target_net, mapping, mapping_alias,
                   network_mappings, prompts, typed>>
    /\ UNCHANGED <<clientVars, negotiatorVars, enumVars, normVars, ngtVars,
                   adminVars>>

InitMove ==
    /\ prog = "move_plan_create"
    /\ ClientInit
    /\ NegotiatorInit
    /\ EnumInit
    /\ NormInit
    /\ NgtInit(DefaultArgs)
    /\ AdminInit
    /\ \E nets \in VmNetworkOrders : MoveInit(nets)

NextMove ==
    \/ NoNetworkMapping
    \/ \E choice \in {"1", "2", "3"} : ChooseMappingOption(choice)
    \/ \E t \in NetworkInputs, confirm \in {"y", "n"}, x \in NetworkInputs :
          ManualMappingStep(t, confirm, x)
    \/ \E file \in {<<>>} \cup {<<f>> : f \in CsvFiles} :
          ReadCredentialMapping(file)
    \/ \E user_path \in UserPaths : CredentialPathPrompt(user_path)
    \/ \E name \in {"", "plan-a"}, answer \in PlanAnswers :
          PlanNamePrompt(name, answer)

SpecMove == InitMove /\ [][NextMove]_vars

(***************************************************************************)
(* prism_iam_roles_enhanced.py: the role menu of main, with                *)
(* add_view_only_to_existing_role and update_role_operations.  One action  *)
(* runs from one prompt to the next; every request that creates or        *)
(* changes a role is recorded in role_reqs.                                *)
(***************************************************************************)
\* the largest number of passes of the menu loop in one run
MaxMenuPasses == 2

\* the largest number of roles the server holds
MaxRoles == 2

\* the operations of /iam/v4.1.b2/authz/operations; the first is the one
\* get_view_only_operations finds by its name
Operations == {"op-view", "op-edit"}

\* a role as the server holds it and returns it
Role(ext_id, system, ops) ==
    [extId |-> ext_id, displayName |-> ext_id, isSystemDefined |-> system,
     operations |-> ops]

RoleIds == <<"role-1", "role-2", "role-3">>

\* the roles a server can hold at the start
ServerRoleSets ==
    UNION { { [i \in 1..n |-> Role(RoleIds[i], sys[i], ops[i])] :
                sys \in [1..n -> BOOLEAN],
                ops \in [1..n -> SUBSET Operations] } : n \in 0..MaxRoles }

\* a check that takes no role for system-defined
IsSystemDefined_Never(role) == FALSE

\* role.get('isSystemDefined', False)
IsSystemDefined(role) == DictGet(role, "isSystemDefined", FALSE)

\* the role of the server with this extId
ServerRole(ext_id) ==
    server_roles[CHOOSE i \in DOMAIN server_roles :
                    server_roles[i].extId = ext_id]

\* get_view_only_operations: the operations of the cache whose name
\* matches a view-only pattern
GetViewOnlyOperations(cache) == cache \cap {"op-view"}

\* the cache after get_operation_details or get_view_only_operations, when
\* the operations request answers with the operations loaded
LoadAllOperations(cache, loaded) == IF cache = {} THEN loaded ELSE cache

\* role_data of update_role_operations: the current role with the new
\* operations and without the read-only fields
RolePutBody(current, operation_ids) ==
    [displayName |-> current.displayName, operations |-> operation_ids]

RoleRequest(method, ext_id) == [method |-> method, role |-> ext_id]

\* pc_iam.list_roles(limit=100) at the top of the menu loop
ListRoles(answered) ==
    /\ prog = "prism_iam_roles_enhanced"
    /\ r_pc = "list"
    /\ passes < MaxMenuPasses
    /\ passes' = passes + 1
    /\ IF answered /\ server_roles # <<>>
       THEN roles' = server_roles /\ r_pc' = "choice"
       ELSE roles' = <<>> /\ r_pc' = "end"
    /\ UNCHANGED <<server_roles, selected_role, role_data, new_view_ops,
                   operations_cache, role_reqs, refused>>
    /\ UNCHANGED categoryVars
    /\ UNCHANGED <<clientVars, negotiatorVars, enumVars, normVars, ngtVars,
                   moveVars>>

\* "Your choice": q, r, c (create_new_role, which ends with a POST or
\* without one), or a number; for a valid number the details are fetched
MenuChoice(choice, post, details_ok, loaded) ==
    /\ prog = "prism_iam_roles_enhanced"
    /\ r_pc = "choice"
    /\ IF choice = "q"
       THEN /\ r_pc' = "end"
            /\ UNCHANGED <<server_roles, selected_role, role_data,
                           operations_cache, role_reqs>>
       ELSE IF choice = "c"
       THEN /\ r_pc' = "list"
            /\ role_reqs' =
                   IF post = "none"
                      \/ LoadAllOperations(operations_cache, loaded) = {}
                   THEN role_reqs
                   ELSE Append(role_reqs, RoleRequest("POST", "roles"))
            /\ server_roles' =
                   IF /\ post = "created"
                      /\ LoadAllOperations(operations_cache, loaded) # {}
                      /\ Len(server_roles) < Len(RoleIds)
                   THEN Append(server_roles,
                               Role(RoleIds[Len(server_roles) + 1], FALSE,
                                    {"op-edit"}))
                   ELSE server_roles
            /\ operations_cache' = LoadAllOperations(operations_cache, loaded)
            /\ UNCHANGED <<selected_role, role_data>>
       ELSE IF choice \in {"1", "2", "3"}
       THEN LET role_index == (CHOOSE n \in 1..3 : ToString(n) = choice) - 1
            IN  IF role_index >= 0 /\ role_index < Len(roles)
                THEN /\ selected_role' = <<roles[role_index + 1]>>
                     /\ IF details_ok
                        THEN /\ role_data' =
                                    <<ServerRole(roles[role_index + 1].extId)>>
                             /\ operations_cache' =
                                    LoadAllOperations(operations_cache, loaded)
                             /\ r_pc' = "ask_add"
                        ELSE /\ r_pc' = "list"
                             /\ UNCHANGED <<role_data, operations_cache>>
                     /\ UNCHANGED <<server_roles, role_reqs>>
                ELSE /\ r_pc' = "list"
                     /\ UNCHANGED <<server_roles, selected_role, role_data,
                                    operations_cache, role_reqs>>
       ELSE \* 'r', or an input that is no number
            /\ r_pc' = "list"
            /\ UNCHANGED <<server_roles, selected_role, role_data,
                           operations_cache, role_reqs>>
    /\ UNCHANGED <<roles, new_view_ops, refused, passes>>
    /\ UNCHANGED categoryVars
    /\ UNCHANGED <<clientVars, negotiatorVars, enumVars, normVars, ngtVars,
                   moveVars>>

\* "Would you like to add view-only operations to this role? (y/N)" and,
\* for y on a role main takes for modifiable,
\* add_view_only_to_existing_role up to its confirmation prompt
AskAddViewOnly(add_view_choice, details_ok, loaded) ==
    /\ prog = "prism_iam_roles_enhanced"
    /\ r_pc = "ask_add"
    /\ IF IsSystemDefined(role_data[1])
       THEN /\ refused' = (refused \/ add_view_choice = "y")
            /\ r_pc' = "list"
            /\ UNCHANGED <<new_view_ops, operations_cache, role_reqs>>
       ELSE IF add_view_choice # "y"
       THEN /\ r_pc' = "list"
            /\ UNCHANGED <<new_view_ops, operations_cache, role_reqs, refused>>
       ELSE IF IsSystemDefined(selected_role[1])
       THEN /\ refused' = TRUE
            /\ r_pc' = "list"
            /\ UNCHANGED <<new_view_ops, operations_cache, role_reqs>>
       ELSE /\ UNCHANGED <<role_reqs, refused>>
            /\ IF ~details_ok
               THEN /\ r_pc' = "list"
                    /\ UNCHANGED <<new_view_ops, operations_cache>>
               ELSE LET cache == LoadAllOperations(operations_cache, loaded)
                        current_operations ==
                            ServerRole(selected_role[1].extId).operations
                        new == GetViewOnlyOperations(cache) \ current_operations
                    IN  /\ operations_cache' = cache
                        /\ new_view_ops' = new
                        /\ r_pc' = IF new = {} THEN "list" ELSE "confirm"
    /\ UNCHANGED <<server_roles, roles, selected_role, role_data, passes>>
    /\ UNCHANGED categoryVars
    /\ UNCHANGED <<clientVars, negotiatorVars, enumVars, normVars, ngtVars,
                   moveVars>>

\* "Add n view-only operations to this role? (y/N)" and, for y,
\* update_role_operations: the role is fetched again and PUT back
ConfirmAdd(confirm, details_ok, put_ok) ==
    /\ prog = "prism_iam_roles_enhanced"
    /\ r_pc = "confirm"
    /\ r_pc' = "list"
    /\ LET role_ext_id == selected_role[1].extId
           \* as fetched before the prompt; nothing changed the role since
           current_operations == ServerRole(role_ext_id).operations
           updated_operations == current_operations \cup new_view_ops
       IN  IF confirm # "y"
           THEN UNCHANGED <<role_reqs, server_roles>>
           ELSE IF ~details_ok
           THEN UNCHANGED <<role_reqs, server_roles>>
           ELSE /\ role_reqs' =
                       Append(role_reqs, RoleRequest("PUT", role_ext_id))
                /\ server_roles' =
                       IF put_ok
                       THEN [i \in DOMAIN server_roles |->
                               IF server_roles[i].extId = role_ext_id
                               THEN [server_roles[i] EXCEPT !.operations =
                                       RolePutBody(ServerRole(role_ext_id),
                                                   updated_operations).operations]
                               ELSE server_roles[i]]
                       ELSE server_roles
    /\ UNCHANGED <<roles, selected_role, role_data, new_view_ops,
                   operations_cache, refused, passes>>
    /\ UNCHANGED categoryVars
    /\ UNCHANGED <<clientVars, negotiatorVars, enumVars, normVars, ngtVars,
                   moveVars>>

InitRoles ==
    /\ prog = "prism_iam_roles_enhanced"
    /\ ClientInit
    /\ NegotiatorInit
    /\ EnumInit
    /\ NormInit
    /\ NgtInit(DefaultArgs)
    /\ MoveInit(<<>>)
    /\ CategoryInit(NoAssign)
    /\ \E sr \in ServerRoleSets : RoleInit(sr)

NextRoles ==
    \/ \E answered \in BOOLEAN : ListRoles(answered)
    \/ \E choice \in {"q", "r", "c", "1", "2", "3", "x"},
          post \in {"none", "created", "error"},
          details_ok \in BOOLEAN, loaded \in {{}, Operations} :
          MenuChoice(choice, post, details_ok, loaded)
    \/ \E add_view_choice \in {"y", "n", ""}, details_ok \in BOOLEAN,
          loaded \in {{}, Operations} :
          AskAddViewOnly(add_view_choice, details_ok, loaded)
    \/ \E confirm \in {"y", "n"}, details_ok \in BOOLEAN, put_ok \in BOOLEAN :
          ConfirmAdd(confirm, details_ok, put_ok)

SpecRoles == InitRoles /\ [][NextRoles]_vars

(***************************************************************************)
(* vm_category_assigner_final.py: assign_category_to_vm_v3.  A JSON object *)
(* is a function from its keys to its values; the VM object the GET        *)
(* answers with is drawn from VmObjects.                                   *)
(***************************************************************************)
CategoryKeys == {"Environment", "Tier"}

CategoryValues == {"prod", "dev"}

\* metadata.categories of a VM
CategoryDicts ==
    UNION { [ks -> CategoryValues] : ks \in SUBSET CategoryKeys }

\* metadata of a VM: any of its fields may be missing
MetadataObjects ==
    { [k \in ks \cup cs |->
          IF k = "categories" THEN cats
          ELSE IF k = "uuid" THEN "vm-uuid-1"
          ELSE IF k = "spec_version" THEN "7"
          ELSE "owner-1"] :
        ks \in SUBSET {"uuid", "spec_version", "owner_reference"},
        cs \in SUBSET {"categories"},
        cats \in CategoryDicts }

\* GET /nutanix/v3/vms/{vm_uuid}: any top-level field may be missing
VmObjects ==
    { [k \in ks |-> "field"] : ks \in SUBSET {"api_version", "spec", "status"} }
    \cup
    { [k \in ks \cup {"metadata"} |->
          IF k = "metadata" THEN md
          ELSE IF k = "api_version" THEN "3.1"
          ELSE IF k = "spec" THEN "spec-of-vm"
          ELSE "status-of-vm"] :
        ks \in SUBSET {"api_version", "spec", "status"},
        md \in MetadataObjects }

AssignCalls ==
    [vm_uuid : {"vm-uuid-1"}, category_key : CategoryKeys,
     category_value : CategoryValues]

\* d[k] = v on a dictionary
DictSet(d, k, v) == [x \in DOMAIN d \cup {k} |-> IF x = k THEN v ELSE d[x]]

\* del d[k], for k in d or not
DictDel(d, k) == [x \in DOMAIN d \ {k} |-> d[x]]

\* a body whose categories are the assigned one alone
PutBody_OnlyNewCategory(vm_data, category_key, category_value) ==
    IF "metadata" \notin DOMAIN vm_data THEN <<>>
    ELSE << DictDel(DictSet(vm_data, "metadata",
                            DictSet(vm_data["metadata"], "categories",
                                    DictSet(<<>>, category_key,
                                            category_value))),
                    "status") >>

\* the object assign_category_to_vm_v3 PUTs for the vm_data it fetched:
\* <<>> when vm_data["metadata"] raises KeyError, else <<body>>
PutBody(vm_data, category_key, category_value) ==
    LET current_categories ==
            DictGet(DictGet(vm_data, "metadata", <<>>), "categories", <<>>)
    IN  IF "metadata" \notin DOMAIN vm_data THEN <<>>
        ELSE << DictDel(DictSet(vm_data, "metadata",
                                DictSet(vm_data["metadata"], "categories",
                                        DictSet(current_categories,
                                                category_key,
                                                category_value))),
                        "status") >>

\* the GET of the VM and what follows up to the PUT; answered is <<>> for
\* an error status or an exception of requests
AssignGet(answered) ==
    /\ prog = "vm_category_assigner"
    /\ c_pc = "get"
    /\ IF answered = <<>>
       THEN /\ c_pc' = "returned"
            /\ c_result' = "False"
            /\ UNCHANGED <<c_vm, c_put>>
       ELSE LET body == PutBody(answered[1], c_call.category_key,
                                c_call.category_value)
            IN  /\ c_vm' = answered
                /\ c_put' = body
                /\ c_pc' = IF body = <<>> THEN "returned" ELSE "put"
                /\ c_result' = IF body = <<>> THEN "False" ELSE c_result
    /\ UNCHANGED c_call
    /\ UNCHANGED roleVars
    /\ UNCHANGED <<clientVars, negotiatorVars, enumVars, normVars, ngtVars,
                   moveVars>>

\* the answer to the PUT: a status code, or 0 for an exception of requests
AssignPutAnswer(status_code) ==
    /\ prog = "vm_category_assigner"
    /\ c_pc = "put"
    /\ c_pc' = "returned"
    /\ c_result' = IF status_code \in {200, 202} THEN "True" ELSE "False"
    /\ UNCHANGED <<c_call, c_vm, c_put>>
    /\ UNCHANGED roleVars
    /\ UNCHANGED <<clientVars, negotiatorVars, enumVars, normVars, ngtVars,
                   moveVars>>

InitCategory ==
    /\ prog = "vm_category_assigner"
    /\ ClientInit
    /\ NegotiatorInit
    /\ EnumInit
    /\ NormInit
    /\ NgtInit(DefaultArgs)
    /\ MoveInit(<<>>)
    /\ RoleInit(<<>>)
    /\ \E call \in AssignCalls : CategoryInit(call)

NextCategory ==
    \/ \E answered \in {<<>>} \cup {<<vm>> : vm \in VmObjects} :
          AssignGet(answered)
    \/ \E status_code \in {0, 200, 202, 400} : AssignPutAnswer(status_code)

SpecCategory == InitCategory /\ [][NextCategory]_vars

(***************************************************************************)
(* Helpers of the properties.                                              *)
(***************************************************************************)
Last(s) == s[Len(s)]

\* how many requests of the current call went to endpoint e
Count(s, e) == Cardinality({i \in DOMAIN s : s[i] = e})

VmmEndpoints == {VmmEndpoint(v) : v \in {"v4.1", "v4.0", "v3.0", "v2.0"}}

\* the client has dealt with the latest response and is not waiting for one
Handled == pc \in {"vmm_send", "legacy_send", "returned", "raised"}

\* the endpoint the next request will go to
NextEndpoint ==
    IF pc = "vmm_send" THEN VmmEndpoint(versions_to_try[vidx])
    ELSE IF pc = "legacy_send" THEN LegacyApiPaths[lidx]
    ELSE None

\* position in the preference order v4.1 > v4.0 > v3 > v2 (1 is newest)
VersionRank(v) ==
    CASE v = "v4.1" -> 1 [] v = "v4.0" -> 2 [] v = "v3.0" -> 3
      [] v = "v2.0" -> 4 [] OTHER -> 0

IsStatus(r, set) == ~r.exc /\ r.status \in set

(***************************************************************************)
(* C1.  Once a get_vms call has cached working version V, every later      *)
(* get_vms call sends its first request to the endpoint of V that          *)
(* succeeded.  (succEndpoint is updated only by the step that returns, so  *)
(* before that step it is the endpoint that filled the cache.)             *)
(***************************************************************************)
C1_FirstRequestToCachedEndpoint ==
    (startWorking # None /\ reqs # <<>> /\ pc # "returned")
        => reqs[1] = succEndpoint

C3_FallbackOnlyAfter404 ==
    (pc \in {"vmm_wait", "legacy_wait"} /\ Len(reqs) >= 2
       /\ reqs[Len(reqs) - 1] \in VmmEndpoints
       /\ Last(reqs) # reqs[Len(reqs) - 1])
        => IsStatus(lastResp, {404})

(***************************************************************************)
(* C4.  Against a server that answers 404 on every /vmm endpoint and 200   *)
(* on the v3 endpoint, once v3 is the cached version a call sends no       *)
(* request to the v4.1 or v4.0 endpoint.                                   *)
(***************************************************************************)
C4_V3CachedNoV4Probe ==
    (onlyV3 /\ startWorking = "v3.0")
        => \A i \in DOMAIN reqs :
              reqs[i] \notin {VmmEndpoint("v4.1"), VmmEndpoint("v4.0")}


(***************************************************************************)
(* C6 (as claimed).  After the first 401/403 response of a call no further *)
(* request is sent and the error is raised to the caller.                  *)
(***************************************************************************)
C6_AuthNeverRetried ==
    (Handled /\ IsStatus(lastResp, {401, 403})) => pc = "raised"

(***************************************************************************)
(* C6 (amended).  A 401/403 from a VMM endpoint is retried like any other  *)
(* error status: on attempts 1..retries the same endpoint is asked again   *)
(* after backoff * 2^attempt seconds; on attempt retries+1 the call raises *)
(* and sends nothing more.  The request that follows a 401/403 from a VMM  *)
(* endpoint always goes to that same endpoint.  A 401/403 from a legacy    *)
(* path is not retried: the next legacy path is tried, and the call raises *)
(* after the last one.                                                     *)
(***************************************************************************)
C6_AuthRetriedThenFatal ==
    /\ (Handled /\ IsStatus(lastResp, {401, 403})
          /\ Last(reqs) \in VmmEndpoints)
         => \/ /\ pc = "vmm_send"
               /\ NextEndpoint = Last(reqs)
               /\ attempt >= 1
               /\ Count(reqs, Last(reqs)) = attempt
               /\ lastSleep = backoff * (2 ^ (attempt - 1))
            \/ /\ pc = "raised"
               /\ error = "request_failed"
               /\ Count(reqs, Last(reqs)) = retries + 1
    /\ (pc = "vmm_wait" /\ IsStatus(lastResp, {401, 403}))
         => Last(reqs) = reqs[Len(reqs) - 1]
    /\ (Handled /\ IsStatus(lastResp, {401, 403})
          /\ Last(reqs) \in Range(LegacyApiPaths))
         => /\ lastSleep = 0
            /\ Count(reqs, Last(reqs)) = 1
            /\ \/ pc = "legacy_send" /\ NextEndpoint # Last(reqs)
               \/ pc = "raised" /\ Last(reqs) = Last(LegacyApiPaths)

C6_Witness ==
    /\ pc = "raised"
    /\ IsStatus(lastResp, {401, 403})
    /\ error = "request_failed"
    /\ Len(reqs) = retries + 1

(***************************************************************************)
(* C8 (as claimed).  After a 429 the same candidate is retried exactly     *)
(* once: a first 429 is followed by a request to the same endpoint, a      *)
(* repeated 429 by a request to the next candidate.                        *)
(***************************************************************************)
C8_RateLimitRetriedOnce ==
    (Handled /\ IsStatus(lastResp, {429}) /\ Last(reqs) \in VmmEndpoints)
        => /\ rateLimited = 1 => NextEndpoint = Last(reqs)
           /\ rateLimited >= 2 => NextEndpoint # Last(reqs)

(***************************************************************************)
(* C8 (amended).  On a 429 from a VMM endpoint the client sleeps for the   *)
(* Retry-After value (60 s when the header is absent); every 429 uses up   *)
(* one of the retries+1 attempts of the candidate, so the same endpoint is *)
(* asked again while attempts remain and only a 429 on the last attempt    *)
(* makes the client continue with the next candidate.  A 429 from a legacy *)
(* path is neither waited for nor retried.                                 *)
(***************************************************************************)
C8_RateLimitRetriedWhileAttemptsRemain ==
    /\ (Handled /\ IsStatus(lastResp, {429}) /\ Last(reqs) \in VmmEndpoints)
         => /\ lastSleep = IF lastResp.retry_after = <<>> THEN DefaultRetryAfter
                           ELSE lastResp.retry_after[1]
            /\ pc \in {"vmm_send", "legacy_send"}
            /\ \/ /\ NextEndpoint = Last(reqs)
                  /\ attempt >= 1
                  /\ Count(reqs, Last(reqs)) = attempt
               \/ /\ NextEndpoint # Last(reqs)
                  /\ Count(reqs, Last(reqs)) = retries + 1
    /\ (Handled /\ IsStatus(lastResp, {429})
          /\ Last(reqs) \in Range(LegacyApiPaths))
         => /\ lastSleep = 0
            /\ Count(reqs, Last(reqs)) = 1
            /\ NextEndpoint # Last(reqs)

C8_Witness ==
    /\ pc = "vmm_send"
    /\ IsStatus(lastResp, {429})
    /\ rateLimited = retries + 1
    /\ NextEndpoint # Last(reqs)
    /\ lastSleep = DefaultRetryAfter

(***************************************************************************)
(* C9.  Whichever attempt a 429 from a VMM endpoint arrives on, the fetch  *)
(* retries: the next request goes to the same endpoint (so that a 200      *)
(* answering it is returned without an error).                             *)
(***************************************************************************)
C9_RateLimitAlwaysRetried ==
    (Handled /\ IsStatus(lastResp, {429}) /\ Last(reqs) \in VmmEndpoints)
        => pc = "vmm_send" /\ NextEndpoint = Last(reqs)

C5_AuthEndsNegotiation ==
    \A i \in DOMAIN probes :
        IsStatus(probes[i].resp, {401, 403})
            => /\ i = Len(probes)
               /\ dpc = "done" => api_result = "auth_failed"

(***************************************************************************)
(* C7.  discover_api_version probes the candidates in the fixed order of   *)
(* api_endpoints, newest first; the first candidate that answers 200 is    *)
(* recorded as the working version and returned, and no candidate after it *)
(* is probed.                                                              *)
(***************************************************************************)
ApiVersionNumber(v) ==
    CASE v = "v4.1" -> 41 [] v = "v4.0" -> 40 [] v = "v3.1" -> 31
      [] v = "v3.0" -> 30 [] v = "v2.0" -> 20

C7_FirstSuccessRecorded ==
    /\ Len(probes) <= Len(ApiEndpoints)
    /\ \A i \in DOMAIN probes :
          /\ probes[i].version = ApiEndpoints[i].version
          /\ probes[i].endpoint = ApiEndpoints[i].endpoint
          /\ i > 1 => ApiVersionNumber(probes[i].version)
                        < ApiVersionNumber(probes[i - 1].version)
          /\ IsStatus(probes[i].resp, {200})
               => /\ i = Len(probes)
                  /\ dpc = "done"
                  /\ api_result = probes[i].version
                  /\ working_api_version = probes[i].version
    /\ (dpc = "done" /\ api_result \notin {"auth_failed", "none_found"})
         => IsStatus(Last(probes).resp, {200})

C7_Witness ==
    /\ dpc = "done"
    /\ Len(probes) = 3
    /\ api_result = "v3.1"
    /\ working_api_version = "v3.1"


C12_EnumerationReturnsEveryRecord ==
    (prog \in {"list_vms", "get_vms_interactive"} /\ e_pc = "returned")
        => all_vms = [i \in 1..serverCount |-> i]

(***************************************************************************)
(* C13.  When the server reports no total, a full page is followed by the  *)
(* request for the next page: no enumeration ends on a full page of a      *)
(* server that reports no total.                                           *)
(***************************************************************************)
C13_FullPageWithoutTotalContinues ==
    ~ /\ e_pc = "returned"
      /\ stopReason \in {"empty", "total", "short"}
      /\ ~reportsTotal
      /\ Len(lastPage.data) = PageLimit

(***************************************************************************)
(* C14.  An enumeration that gives up on a 404 answer to a page request    *)
(* after the first page has re-negotiated first: it has probed candidate   *)
(* versions since it started.                                              *)
(***************************************************************************)
C14_GivesUpOnlyAfterRenegotiation ==
    ( /\ prog = "get_vms_interactive"
      /\ e_pc = "failed"
      /\ ~e_resp.exc
      /\ e_resp.status = 404
      /\ page > 0 )
        => probes # probesBefore

C16_DryRunAndSkipInstallOnlyRead ==
    (args.dry_run \/ args.skip_install)
        => \A i \in DOMAIN ngt_reqs :
              /\ ngt_reqs[i].method = "GET"
              /\ ngt_reqs[i].op \notin {"insert-iso", "install"}

C16_Witness ==
    /\ args.dry_run
    /\ ~args.skip_install
    /\ ngt_pc = "exit"
    /\ exit_reason = "dry_run"
    /\ ngt_status = "not_installed"
    /\ Len(ngt_reqs) >= 2

(***************************************************************************)
(* C17.  With --force-api-version V every request of the run to the VMM    *)
(* API is addressed to version V.                                          *)
(***************************************************************************)
C17_ForcedVersionOnEveryVmmRequest ==
    args.force_api_version # None
        => \A i \in DOMAIN ngt_reqs :
              ngt_reqs[i].api = "vmm"
                  => ngt_reqs[i].version = args.force_api_version

(***************************************************************************)
(* C18.  The install request is sent only after insert_ngt_iso returned    *)
(* success, its insert-iso request earlier in the run; when insert_ngt_iso *)
(* fails no install request is sent and install_ngt returns failure.       *)
(***************************************************************************)
C18_InstallOnlyAfterIsoInserted ==
    /\ \A i \in DOMAIN ngt_reqs :
          ngt_reqs[i].op = "install"
              => /\ insert_ok = "true"
                 /\ \E j \in 1..(i - 1) : ngt_reqs[j].op = "insert-iso"
    /\ insert_ok = "false"
          => /\ \A i \in DOMAIN ngt_reqs : ngt_reqs[i].op # "install"
             /\ install_ok = "false"
             /\ ngt_pc = "exit"
             /\ exit_code = 1

C18_Witness ==
    /\ insert_ok = "false"
    /\ install_ok = "false"
    /\ ngt_pc = "exit"
    /\ Last(ngt_reqs) = TaskGet
    /\ \E i \in DOMAIN ngt_reqs : ngt_reqs[i].op = "insert-iso"

(***************************************************************************)
(* C19.  Every state-changing guest-tools request (insert-iso, install,    *)
(* install retry) carries in If-Match the ETag of the guest-tools GET sent *)
(* just before it, so after the previous state-changing request; when that *)
(* GET yields no ETag nothing is sent after it and the operation fails.    *)
(***************************************************************************)
C19_IfMatchIsFreshEtag ==
    /\ \A i \in DOMAIN ngt_reqs :
          ngt_reqs[i].method = "POST"
              => /\ i > 1
                 /\ ngt_reqs[i - 1].method = "GET"
                 /\ ngt_reqs[i - 1].op = "guest-tools"
                 /\ ngt_reqs[i - 1].etag # None
                 /\ ngt_reqs[i].if_match = ngt_reqs[i - 1].etag
    /\ (etag = None /\ insert_ok # "pending")
          => /\ Last(ngt_reqs).method = "GET"
             /\ Last(ngt_reqs).op = "guest-tools"
             /\ install_ok = "false"
             /\ ngt_pc = "exit"
             /\ exit_code = 1

C19_Witness ==
    /\ ngt_pc = "verify_install"
    /\ Len(SelectSeq(ngt_reqs, LAMBDA q : q.method = "POST")) = 3
    /\ Last(ngt_reqs).op = "install"
    /\ Last(ngt_reqs).if_match = "etag-2"
    /\ ngt_reqs[Len(ngt_reqs) - 2].if_match = "etag-1"

(***************************************************************************)
(* C20.  Every recorded network mapping that has a TestNetworkID has it    *)
(* different from its TargetNetworkID.                                     *)
(***************************************************************************)
C20_TestNetworkDiffersFromTarget ==
    \A i \in DOMAIN network_mappings :
        network_mappings[i].TestNetworkID # None
            => network_mappings[i].TestNetworkID
                   # network_mappings[i].TargetNetworkID

(***************************************************************************)
(* C21.  Enter at the test network prompt skips only the test actions:     *)
(* when the last pass of the mapping loop chose a valid target network and *)
(* the test network prompt was answered with Enter, the mapping of that    *)
(* source network to that target is recorded without a TestNetworkID and   *)
(* the loop has moved on to the next source network.                       *)
(***************************************************************************)
C21_EnterKeepsTheMapping ==
    (typed.chosen /\ typed.asked /\ typed.test = "")
        => /\ network_mappings # <<>>
           /\ network_mappings[Len(network_mappings)] =
                  NewMapping(vm_networks[typed.src].id, target_net)
           /\ (src_idx > typed.src \/ m_pc = "done")

(***************************************************************************)
(* C22.  When the credential mapping file is missing and the user answers  *)
(* 'skip', the workflow continues without credentials: it is not cancelled *)
(* but goes on to the plan name and the plan creation request.             *)
(***************************************************************************)
C22_SkipContinuesWithoutCredentials ==
    (csv_file = <<>> /\ cred_answer = "skip")
        => m_pc \in {"plan_name", "created", "failed"}

(***************************************************************************)
(* C23.  System-defined roles cannot be modified: no PUT request is sent   *)
(* for a role whose isSystemDefined flag is true.                          *)
(***************************************************************************)
C23_NoPutForSystemDefinedRole ==
    \A i \in DOMAIN role_reqs :
        role_reqs[i].method = "PUT"
            => ~ServerRole(role_reqs[i].role).isSystemDefined

\* the user asked to modify a system-defined role and was refused, and a
\* PUT was sent for another role
C23_Witness ==
    /\ refused
    /\ \E i \in DOMAIN role_reqs : role_reqs[i].method = "PUT"
    /\ \E i \in DOMAIN server_roles : server_roles[i].isSystemDefined

(***************************************************************************)
(* C24.  assign_category_to_vm_v3 preserves the VM's metadata in full: the *)
(* object it PUTs is the object it fetched with exactly two changes,       *)
(* metadata.categories[key] set to the chosen value and the status field   *)
(* removed; every other category and every other top-level and metadata    *)
(* field is sent back unchanged.                                           *)
(***************************************************************************)
C24_PutIsFetchedWithTwoChanges ==
    c_put # <<>> =>
        LET fetched == c_vm[1]
            body == c_put[1]
            old == DictGet(fetched["metadata"], "categories", <<>>)
            new == body["metadata"]["categories"]
        IN  /\ DOMAIN body = DOMAIN fetched \ {"status"}
            /\ \A k \in DOMAIN body \ {"metadata"} : body[k] = fetched[k]
            /\ DOMAIN body["metadata"] =
                   DOMAIN fetched["metadata"] \cup {"categories"}
            /\ \A m \in DOMAIN fetched["metadata"] \ {"categories"} :
                   body["metadata"][m] = fetched["metadata"][m]
            /\ DOMAIN new = DOMAIN old \cup {c_call.category_key}
            /\ new[c_call.category_key] = c_call.category_value
            /\ \A c \in DOMAIN old \ {c_call.category_key} : new[c] = old[c]

\* a PUT for a VM that had a status, a spec, other metadata fields, another
\* category and another value for the assigned key
C24_Witness ==
    /\ c_put # <<>>
    /\ c_pc = "returned"
    /\ {"status", "spec", "api_version"} \subseteq DOMAIN c_vm[1]
    /\ {"uuid", "spec_version", "categories"} \subseteq DOMAIN c_vm[1]["metadata"]
    /\ DOMAIN c_vm[1]["metadata"]["categories"] = CategoryKeys
    /\ c_vm[1]["metadata"]["categories"][c_call.category_key]
           # c_call.category_value

(***************************************************************************)
(* C25.  list_all_vms terminates: against a server that holds N records    *)
(* and answers every page request, it makes at most ceil(N/limit)+1 page   *)
(* requests, and after that many it is no longer in its loop, whether or   *)
(* not the server reports a total count.                                   *)
(***************************************************************************)
C25_ListAllVmsEndsWithinBound ==
    (prog = "list_vms" /\ e_pc # "idle") =>
        LET most == ((serverCount + PageLimit - 1) \div PageLimit) + 1
        IN  /\ Len(pageRequests) <= most
            /\ Len(pageRequests) = most => e_pc # "looping"

\* an enumeration over a /vmm endpoint of a server that reports no total
\* and holds full pages only: it returns after the extra, empty page
C25_Witness ==
    /\ prog = "list_vms"
    /\ e_pc = "returned"
    /\ ~reportsTotal
    /\ serverCount = 2 * PageLimit
    /\ working_vmm_version \in Range(VmmApiVersions)
    /\ stopReason = "empty"
    /\ Len(pageRequests) = (serverCount \div PageLimit) + 1

=============================================================================
